---- MODULE Spec2Model ----
(***************************************************************************)
(* A model of the KarpelesLab/squashfs library: the path resolver          *)
(* (Superblock.FindInodeAt and the facade calls built on it), the file     *)
(* reader (Inode.ReadAt), the Writer's layout passes and the superblock    *)
(* decoder (New / UnmarshalBinary).                                        *)
(*                                                                         *)
(* Strings are sequences of one-character strings, so that the code's      *)
(* byte-level string operations (IndexByte, slicing, concatenation) are    *)
(* modelled as they are computed.                                          *)
(***************************************************************************)
EXTENDS Integers, Sequences, FiniteSets, TLC

VARIABLES
    \* --- one facade call walking a path (super.go FindInodeAt) ---
    op,                \* which facade call runs: "FindInodeAt" or "Readlink"
    path,              \* the name argument the call was given
    start,             \* the inode the walk started from
    followSymlinks,    \* the followSymlinks argument
    cur,               \* local cur of FindInodeAt
    parent,            \* local parent of FindInodeAt
    name,              \* local name of FindInodeAt (the remaining path)
    symlinkRedirects,  \* local symlinkRedirects of FindInodeAt
    pc,                \* "walk": in the loop; "found": the walk returned; "done": the call returned
    res,               \* the inode the walk returned (NoInode on error)
    err,               \* the error of the call ("nil" when none)
    link,              \* text returned by Readlink
    finalExp,          \* history: number of final-component symlink expansions made
    midExp,            \* history: number of non-final symlink expansions made
    \* --- one call of New on an image (super.go New) ---
    fs,                \* the io.ReaderAt: its size and the header bytes it holds
    rootReadable,      \* whether GetInodeRef(sb.RootInode) succeeds on this image
    newPc,             \* position in New: "ReadAt", "UnmarshalBinary", "version", "root", "done"
    sb,                \* the Superblock under construction (decoded fields)
    newRes,            \* what New returned: "sb" or "nil" ("none" while running)
    newErr,            \* the error New returned ("nil" when none)
    idImage,           \* the ID table of the image: sb.IdCount, the ids stored, how far it can be read
    idTable,           \* sb.idTable
    \* --- one regular file written to an image and read back (writer.go, inode.go) ---
    producer,          \* who made the image: "Writer" (writer.go) or "mksquashfs"
    blockSize,         \* w.blockSize of the Writer, sb.BlockSize of the reader
    data,              \* the bytes of the file (fs.ReadFile of the source)
    wOffset,           \* w.offset
    disk,              \* the bytes of the image written so far
    streams,           \* the compressed streams on disk: what each decompresses to
    dataBlocks,        \* inode.dataBlocks
    startBlock,        \* inode.startBlock
    loopOffset,        \* local offset of the block loop of writeFileData
    filePc,            \* position: "Finalize", "writeFileData", "block", "serializeInode",
                       \*           "GetInodeRef", "ReadAt"
    dInode,            \* the file's inode as stored in the inode table
    fragTable,         \* the fragment table of the image: <<start, size>> per fragment block
    ino,               \* the *Inode GetInodeRef returned
    range,             \* <<a, b, c>>: the reads made are [a, c), [a, b) and [b, c)
    got,               \* the results of the three reads
    \* --- the directory table of a tree, written and listed (writer.go, dir.go) ---
    inodes,            \* w.inodes
    inodePos,          \* inodePos of computeInodePositions: block number and offset per inode
    dirPc,             \* position: "prepareDirectories", "computeInodePositions", "buildDirectoryData",
                       \*   "computeDirectoryTableOffsets", "serializeInodes", "dirReader",
                       \*   "ReadDir", "listed"
    loopIndex,         \* index into w.inodes of the loop over w.inodes in progress
    globalDirOffset,   \* local globalDirOffset of that loop
    dirBlocks,         \* w.precompressedDirBlocks: offset, length and stored length of each
    dirInodes,         \* the directory inodes as stored in the inode table
    listDir,           \* inode number of the directory being listed
    dr,                \* the dirReader: position in the directory table, r.N, error
    listing,           \* the entries ReadDir returned
    listErr,           \* the error ReadDir returned
    \* --- Writers through NewWriter, Add and Finalize (writer.go) ---
    writers,           \* the Writers: two made with the same options and given the same calls
    sinks,             \* what each Writer's io.Writer received: the Write and WriteAt calls, in order
    clocks,            \* time.Now() when each Writer was created
    lastCall,          \* the call that returned last: its name, its error, the sink calls it made
    finalizeCalls,     \* history: number of Finalize calls made so far
    calls,             \* history: number of calls made so far
    \* --- concurrent calls on one opened image and its inode-reference cache (super.go, inode.go, dir.go) ---
    exported,          \* the opened image: whether it has an export table, and the number its root inode carries
    inoIdx,            \* sb.inoIdx: the inode reference cached for each inode number (NoRef: none)
    inoIdxL,           \* sb.inoIdxL: the goroutines holding the read lock and the one holding the write lock
    threads,           \* per goroutine: the call it runs, its position in it, its locals, the calls it has left
    \* --- an image opened with Open, used and closed (super.go Open, Close; inode.go GetUid) ---
    osFile,            \* the *os.File f of Open: whether it is open, and how many times its descriptor was released
    clos,              \* sb.clos: "nil" or "f"
    openPc,            \* position: "os.Open", "New", "opened" (Open returned sb), "failed" (Open returned an error), "collected", "panicked"
    openErr,           \* the error Open returned ("nil" when none)
    closeRes,          \* history: the error each Close call of the caller returned, in order
    idCall,            \* the last GetUid or GetGid call: its name, the inode's index, what it returned
    \* --- the inode table of an image with large directories (writer.go buildInodeTableToBuffer) ---
    tablePc,           \* where buildInodeTableToBuffer is
    comp,              \* w.comp: how the compressor treats a block
    iteration,         \* local iteration of the first loop
    dirIter,           \* local dirIter of the second loop
    blockPositions,    \* local blockPositions
    result,            \* the metadata blocks serializeInodesToBuffer wrote
    rootInode,         \* w.sb.RootInode
    tableErr,          \* the error buildInodeTableToBuffer returns
    \* --- a metadata reader over a table of block pointers (tablereader.go) ---
    ptrImage,          \* the image: the metadata blocks and the pointer array
    tr,                \* the tableReader: buf, offt, tofft
    trPc,              \* position: "new", "reading", "failed"
    trErr,             \* the error the last call returned
    blocksRead,        \* history: where each metadata block readBlock decoded lies
    delivered,         \* history: the bytes the Read calls returned
    reads,             \* number of Read calls so far
    \* --- lookup of a name in an extended directory ---
    xdir,              \* the directory image: its items, its blocks and its inode
    wanted,            \* the name looked up
    lookupPc,          \* "idle", "lookup", "done"
    viaIndex,          \* the result of lookupRelativeInode through the index
    viaScan            \* the result of reading the directory from its start

pathVars == <<op, path, start, followSymlinks, cur, parent, name,
              symlinkRedirects, pc, res, err, link, finalExp, midExp>>

superVars == <<fs, rootReadable, newPc, sb, newRes, newErr, idImage, idTable>>

fileVars == <<producer, blockSize, data, wOffset, disk, streams, dataBlocks,
              startBlock, loopOffset, filePc, dInode, fragTable, ino, range, got>>

dirVars == <<inodes, inodePos, dirPc, loopIndex, globalDirOffset, dirBlocks, dirInodes,
             listDir, dr, listing, listErr>>

lifeVars == <<writers, sinks, clocks, lastCall, finalizeCalls, calls>>

cacheVars == <<exported, inoIdx, inoIdxL, threads>>

openVars == <<osFile, clos, openPc, openErr, closeRes, idCall>>

tableVars == <<tablePc, comp, iteration, dirIter, blockPositions, result, rootInode, tableErr>>

readerVars == <<ptrImage, tr, trPc, trErr, blocksRead, delivered, reads>>

lookupVars == <<xdir, wanted, lookupPc, viaIndex, viaScan>>

vars == <<pathVars, superVars, fileVars, dirVars, lifeVars, cacheVars, openVars, tableVars, readerVars, lookupVars>>

notPathVars == <<superVars, fileVars, dirVars, lifeVars, cacheVars, openVars, tableVars, readerVars, lookupVars>>
notSuperVars == <<pathVars, fileVars, dirVars, lifeVars, cacheVars, openVars, tableVars, readerVars, lookupVars>>
notFileVars == <<pathVars, superVars, dirVars, lifeVars, cacheVars, openVars, tableVars, readerVars, lookupVars>>
notDirVars == <<pathVars, superVars, fileVars, lifeVars, cacheVars, openVars, tableVars, readerVars, lookupVars>>
notLifeVars == <<pathVars, superVars, fileVars, dirVars, cacheVars, openVars, tableVars, readerVars, lookupVars>>
notCacheVars == <<pathVars, superVars, fileVars, dirVars, lifeVars, openVars, tableVars, readerVars, lookupVars>>
notOpenVars == <<pathVars, superVars, fileVars, dirVars, lifeVars, cacheVars, tableVars, readerVars, lookupVars>>

\* The state of a part of the library that takes no part in a run.
PathIdle ==
    /\ op = "none" /\ path = <<>> /\ start = 0 /\ followSymlinks = FALSE
    /\ cur = 0 /\ parent = 0 /\ name = <<>> /\ symlinkRedirects = 0
    /\ pc = "idle" /\ res = 0 /\ err = "nil" /\ link = <<>>
    /\ finalExp = 0 /\ midExp = 0

SuperIdle ==
    /\ fs = <<>> /\ rootReadable = FALSE /\ newPc = "idle" /\ sb = <<>>
    /\ newRes = "none" /\ newErr = "nil" /\ idImage = <<>> /\ idTable = <<>>

FileIdle ==
    /\ producer = "none" /\ blockSize = 0 /\ data = <<>> /\ wOffset = 0
    /\ disk = <<>> /\ streams = <<>> /\ dataBlocks = <<>> /\ startBlock = 0
    /\ loopOffset = 0 /\ filePc = "idle" /\ dInode = <<>> /\ fragTable = <<>>
    /\ ino = <<>> /\ range = <<>> /\ got = <<>>

DirIdle ==
    /\ inodes = <<>> /\ inodePos = <<>> /\ dirPc = "idle" /\ loopIndex = 0 /\ globalDirOffset = 0
    /\ dirBlocks = <<>> /\ dirInodes = <<>> /\ listDir = 0 /\ dr = <<>>
    /\ listing = <<>> /\ listErr = "nil"

LifeIdle ==
    /\ writers = <<>> /\ sinks = <<>> /\ clocks = <<>> /\ lastCall = <<>>
    /\ finalizeCalls = 0 /\ calls = 0

CacheIdle ==
    /\ exported = <<>> /\ inoIdx = <<>> /\ inoIdxL = <<>> /\ threads = <<>>

OpenIdle ==
    /\ osFile = <<>> /\ clos = "nil" /\ openPc = "idle" /\ openErr = "nil"
    /\ closeRes = <<>> /\ idCall = <<>>

TableIdle ==
    /\ tablePc = "idle"
    /\ comp = "none"
    /\ iteration = 0
    /\ dirIter = 0
    /\ blockPositions = <<>>
    /\ result = <<>>
    /\ rootInode = 0
    /\ tableErr = "nil"

ReaderIdle ==
    /\ ptrImage = <<>>
    /\ tr = <<>>
    /\ trPc = "idle"
    /\ trErr = "nil"
    /\ blocksRead = <<>>
    /\ delivered = <<>>
    /\ reads = 0

LookupIdle ==
    /\ xdir = <<>>
    /\ wanted = 0
    /\ lookupPc = "idle"
    /\ viaIndex = <<>>
    /\ viaScan = <<>>

-----------------------------------------------------------------------------
(* Bounds of the model *)

\* Longest path, in components, handed to a facade call.
MaxComponents == 3

\* Most components that follow a link of the chain k00..k40 in such a path.
MaxChainTail == 1

-----------------------------------------------------------------------------
(* Errors (errors.go, io/fs) *)

ErrNotDirectory == "ErrNotDirectory"
ErrTooManySymlinks == "ErrTooManySymlinks"
ErrNotExist == "fs.ErrNotExist"
ErrInvalid == "fs.ErrInvalid"

NoInode == 0

-----------------------------------------------------------------------------
(* Inode types (type.go) *)

DirType == 1
FileType == 2
SymlinkType == 3
CharDevType == 5
XDirType == 8
XFileType == 9
XSymlinkType == 10

Basic(t) == IF t >= 8 THEN t - 7 ELSE t

TypeIsDir(t) == Basic(t) = DirType

TypeIsSymlink(t) == Basic(t) = SymlinkType

-----------------------------------------------------------------------------
(* The opened image: a directory tree of decoded inodes.                   *)

Digit(n) == <<"0", "1", "2", "3", "4", "5", "6", "7", "8", "9">>[n + 1]

\* Budget of symlink expansions of one FindInodeAt call.
MaxSymlinkRedirects == 40

\* k00 -> k01 -> ... -> k40 -> "." : resolving k00 takes 41 expansions, k01 takes 40.
ChainLen == MaxSymlinkRedirects + 1

ChainName(i) == <<"k", Digit(i \div 10), Digit(i % 10)>>

ChainIno(i) == 20 + i

RootIno == 1

Dir(t, entries) == [Type |-> t, SymTarget |-> <<>>, entries |-> entries]
File(t) == [Type |-> t, SymTarget |-> <<>>, entries |-> <<>>]
Symlink(t, target) == [Type |-> t, SymTarget |-> target, entries |-> <<>>]
Entry(n, i) == [name |-> n, ino |-> i]

\*  /            (1)  extended directory
\*  /d           (2)  directory: e, f, l -> "f"
\*  /d/e         (3)  directory: f, l -> "f"
\*  /f           (4)  regular file
\*  /d/f         (5)  extended regular file
\*  /d/e/f       (6)  character device
\*  /s -> "d"    (7)      /t -> "f"   (8)      /u -> "d/e/" (9)
\*  /x -> ""     (10)     /y -> "/f"  (11)     /z -> "z"    (12)
\*  /d/l -> "f"  (13)     /d/e/l -> "f" (14)
\*  /k00 .. /k40  (20..60), each a link to the next, the last one to "."
RootEntries ==
    <<Entry(<<"d">>, 2), Entry(<<"f">>, 4)>>
    \o [i \in 1..ChainLen |-> Entry(ChainName(i - 1), ChainIno(i - 1))]
    \o <<Entry(<<"s">>, 7), Entry(<<"t">>, 8), Entry(<<"u">>, 9),
         Entry(<<"x">>, 10), Entry(<<"y">>, 11), Entry(<<"z">>, 12)>>

Inodes ==
    [i \in (1..14) \cup {ChainIno(k) : k \in 0..(ChainLen - 1)} |->
        CASE i = 1 -> Dir(XDirType, RootEntries)
          [] i = 2 -> Dir(DirType, <<Entry(<<"e">>, 3), Entry(<<"f">>, 5), Entry(<<"l">>, 13)>>)
          [] i = 3 -> Dir(DirType, <<Entry(<<"f">>, 6), Entry(<<"l">>, 14)>>)
          [] i = 4 -> File(FileType)
          [] i = 5 -> File(XFileType)
          [] i = 6 -> File(CharDevType)
          [] i = 7 -> Symlink(SymlinkType, <<"d">>)
          [] i = 8 -> Symlink(SymlinkType, <<"f">>)
          [] i = 9 -> Symlink(SymlinkType, <<"d", "/", "e", "/">>)
          [] i = 10 -> Symlink(SymlinkType, <<>>)
          [] i = 11 -> Symlink(SymlinkType, <<"/", "f">>)
          [] i = 12 -> Symlink(SymlinkType, <<"z">>)
          [] i = 13 -> Symlink(SymlinkType, <<"f">>)
          [] i = 14 -> Symlink(SymlinkType, <<"f">>)
          [] OTHER -> IF i = ChainIno(ChainLen - 1)
                      THEN Symlink(SymlinkType, <<".">>)
                      ELSE Symlink(SymlinkType, ChainName(i - ChainIno(0) + 1))]

\* The directory that holds inode i (the tree above, read upwards).
DirOf(i) ==
    CHOOSE d \in DOMAIN Inodes :
        \/ i = RootIno /\ d = RootIno
        \/ i # RootIno /\ \E k \in DOMAIN Inodes[d].entries : Inodes[d].entries[k].ino = i

\* Inode.IsDir
IsDir(i) == Inodes[i].Type \in {1, 8}

\* Inode.Readlink
InodeReadlink(i) ==
    IF Inodes[i].Type \in {3, 10}
    THEN [target |-> Inodes[i].SymTarget, err |-> "nil"]
    ELSE [target |-> <<>>, err |-> ErrInvalid]

\* Inode.lookupRelativeInode: "." is the inode itself; a directory is scanned
\* for the name; anything else is invalid.
lookupRelativeInode(i, n) ==
    IF n = <<".">> THEN [ino |-> i, err |-> "nil"]
    ELSE IF Inodes[i].Type \in {1, 8}
    THEN LET es == Inodes[i].entries
             hits == {k \in DOMAIN es : es[k].name = n}
         IN IF hits = {}
            THEN [ino |-> NoInode, err |-> ErrNotExist]
            ELSE [ino |-> es[CHOOSE k \in hits : \A j \in hits : k <= j].ino, err |-> "nil"]
    ELSE [ino |-> NoInode, err |-> ErrInvalid]

-----------------------------------------------------------------------------
(* Superblock.FindInodeAt *)

\* strings.IndexByte: the 0-based index of the first c in s, or -1.
IndexByte(s, c) ==
    LET at == {k \in 1..Len(s) : s[k] = c}
    IN IF at = {} THEN -1 ELSE (CHOOSE k \in at : \A j \in at : k <= j) - 1

\* s[from:] for a 0-based from.
SliceFrom(s, from) == SubSeq(s, from + 1, Len(s))

\* s[:to] for a 0-based to.
SliceTo(s, to) == SubSeq(s, 1, to)

\* (mutant) the budget is found exhausted one expansion early.
RedirectsExhaustedEarly(n) == n <= 1

\* (mutant) one expansion more is made than the budget holds.
RedirectsExhaustedLate(n) == n < 0

\* The test made before each expansion: no redirect is left.
RedirectsExhausted(n) == n = 0

\* A symlink target that may not be followed: empty or absolute.
BadTarget(sym) == Len(sym) = 0 \/ sym[1] = "/"

\* (mutant) the "/" that followed the link is dropped with the link.
PrependSymlinkNoSlash(sym, nm, pos) == sym \o SliceFrom(nm, pos + 1)

\* name = string(sym) + name[pos:]: the "/" that followed the link is kept.
PrependSymlink(sym, nm, pos) == sym \o SliceFrom(nm, pos)

\* The inode from which the walk goes on after a final-component link.
ResumeAfterFinalLink(c, p) == p

\* (mutant) the directory test of a non-final component is skipped.
NotADirectorySkipped(t) == FALSE

\* A non-final component that is no symlink must be a directory.
NotADirectory(t) == ~IsDir(t)

Return(s, i, e) == [s EXCEPT !.pc = "found", !.res = IF e = "nil" THEN i ELSE NoInode, !.err = e]

\* One iteration of the for loop, on the record s of the call's locals.
FindInodeAtIter(s) ==
    IF Len(s.name) = 0 THEN Return(s, s.cur, "nil")
    ELSE
    LET pos == IndexByte(s.name, "/") IN
    IF pos = -1 THEN
        LET r == lookupRelativeInode(s.cur, s.name) IN
        IF ~s.followSymlinks THEN Return(s, r.ino, r.err)
        ELSE IF r.err # "nil" THEN Return(s, NoInode, r.err)
        ELSE IF ~TypeIsSymlink(Inodes[r.ino].Type) THEN Return(s, r.ino, "nil")
        ELSE IF RedirectsExhausted(s.symlinkRedirects)
             THEN Return(s, NoInode, ErrTooManySymlinks)
        ELSE
        LET sym == InodeReadlink(r.ino)
            s1 == [s EXCEPT !.symlinkRedirects = @ - 1]
        IN  IF sym.err # "nil" THEN Return(s1, NoInode, sym.err)
            ELSE IF BadTarget(sym.target) THEN Return(s1, NoInode, ErrInvalid)
            ELSE [s1 EXCEPT !.cur = ResumeAfterFinalLink(s.cur, s.parent),
                            !.name = sym.target,
                            !.finalExp = @ + 1]
    ELSE IF pos = 0 THEN [s EXCEPT !.name = SliceFrom(s.name, 1)]
    ELSE IF ~IsDir(s.cur) THEN Return(s, NoInode, ErrNotDirectory)
    ELSE
    LET t == lookupRelativeInode(s.cur, SliceTo(s.name, pos)) IN
    IF t.err # "nil" THEN Return(s, NoInode, t.err)
    ELSE IF TypeIsSymlink(Inodes[t.ino].Type) THEN
        IF RedirectsExhausted(s.symlinkRedirects)
        THEN Return(s, NoInode, ErrTooManySymlinks)
        ELSE
        LET sym == InodeReadlink(t.ino)
            s1 == [s EXCEPT !.symlinkRedirects = @ - 1]
        IN  IF sym.err # "nil" THEN Return(s1, NoInode, sym.err)
            ELSE IF BadTarget(sym.target) THEN Return(s1, NoInode, ErrInvalid)
            ELSE [s1 EXCEPT !.name = PrependSymlink(sym.target, s.name, pos),
                            !.midExp = @ + 1]
    ELSE IF NotADirectory(t.ino) THEN Return(s, NoInode, ErrNotDirectory)
    ELSE [s EXCEPT !.parent = s.cur, !.cur = t.ino, !.name = SliceFrom(s.name, pos + 1)]

\* The locals of FindInodeAt(c, n, follow) on entry.
FindInodeAtEntry(c, n, follow) ==
    [cur |-> c, parent |-> c, name |-> n, symlinkRedirects |-> MaxSymlinkRedirects,
     followSymlinks |-> follow, pc |-> "walk", res |-> NoInode, err |-> "nil",
     finalExp |-> 0, midExp |-> 0]

RECURSIVE RunLoop(_)
RunLoop(s) == IF s.pc # "walk" THEN s ELSE RunLoop(FindInodeAtIter(s))

\* FindInodeAt as the function it computes: [res, err] of the whole call.
FindInodeAt(c, n, follow) == RunLoop(FindInodeAtEntry(c, n, follow))

\* Superblock.FindInode
FindInode(n, follow) == FindInodeAt(RootIno, n, follow)

-----------------------------------------------------------------------------
(* io/fs.ValidPath, as called by the facade: "." or slash-separated        *)
(* elements none of which is empty, "." or "..".                           *)

RECURSIVE Split(_)
Split(s) ==
    LET pos == IndexByte(s, "/")
    IN IF pos = -1 THEN <<s>> ELSE <<SliceTo(s, pos)>> \o Split(SliceFrom(s, pos + 1))

ValidPath(n) ==
    \/ n = <<".">>
    \/ \A k \in DOMAIN Split(n) : Split(n)[k] \notin {<<>>, <<".">>, <<".", ".">>}

-----------------------------------------------------------------------------
(* The paths handed to the facade *)

Components ==
    {<<>>, <<".">>, <<".", ".">>, <<"d">>, <<"e">>, <<"f">>, <<"l">>,
     <<"s">>, <<"t">>, <<"u">>, <<"x">>, <<"y">>, <<"z">>}

\* The links at which a path enters the chain: 41, 40 and 39 expansions to go.
ChainHeads == {ChainName(0), ChainName(1), ChainName(2)}

RECURSIVE Join(_)
Join(cs) ==
    IF Len(cs) = 0 THEN <<>>
    ELSE IF Len(cs) = 1 THEN cs[1]
    ELSE cs[1] \o <<"/">> \o Join(Tail(cs))

SeqsUpTo(S, lo, hi) == UNION {[1..n -> S] : n \in lo..hi}

Paths ==
    {Join(cs) : cs \in SeqsUpTo(Components, 1, MaxComponents)}
    \cup {Join(<<h>> \o cs) : h \in ChainHeads, cs \in SeqsUpTo(Components, 0, MaxChainTail)}

Starts == {RootIno, 2}

-----------------------------------------------------------------------------
(* State machine of one facade call *)

Locals == [cur |-> cur, parent |-> parent, name |-> name,
           symlinkRedirects |-> symlinkRedirects, followSymlinks |-> followSymlinks,
           pc |-> pc, res |-> res, err |-> err, finalExp |-> finalExp, midExp |-> midExp]

SetLocals(s) ==
    /\ cur' = s.cur
    /\ parent' = s.parent
    /\ name' = s.name
    /\ symlinkRedirects' = s.symlinkRedirects
    /\ pc' = s.pc
    /\ res' = s.res
    /\ err' = s.err
    /\ finalExp' = s.finalExp
    /\ midExp' = s.midExp

\* A call has been made: FindInodeAt(start, path, follow), or Readlink(path),
\* which walks from the root with followSymlinks = true once the path is valid.
PathInit ==
    /\ op \in {"FindInodeAt", "Readlink"}
    /\ path \in Paths
    /\ start \in (IF op = "Readlink" THEN {RootIno} ELSE Starts)
    /\ followSymlinks \in (IF op = "Readlink" THEN {TRUE} ELSE BOOLEAN)
    /\ cur = start
    /\ parent = start
    /\ name = path
    /\ symlinkRedirects = MaxSymlinkRedirects
    /\ pc = IF op = "Readlink" /\ ~ValidPath(path) THEN "done" ELSE "walk"
    /\ res = NoInode
    /\ err = IF op = "Readlink" /\ ~ValidPath(path) THEN ErrInvalid ELSE "nil"
    /\ link = <<>>
    /\ finalExp = 0
    /\ midExp = 0
    /\ SuperIdle
    /\ FileIdle
    /\ DirIdle
    /\ LifeIdle
    /\ CacheIdle
    /\ OpenIdle
    /\ TableIdle
    /\ ReaderIdle
    /\ LookupIdle

\* One iteration of the loop of FindInodeAt.
Iterate ==
    /\ pc = "walk"
    /\ \E n \in {FindInodeAtIter(Locals)} : SetLocals(n)
    /\ UNCHANGED <<op, path, start, followSymlinks, link>>
    /\ UNCHANGED notPathVars

\* FindInodeAt returned to its caller.
ReturnFindInodeAt ==
    /\ pc = "found"
    /\ op = "FindInodeAt"
    /\ pc' = "done"
    /\ UNCHANGED <<op, path, start, followSymlinks, cur, parent, name,
                   symlinkRedirects, res, err, link, finalExp, midExp>>
    /\ UNCHANGED notPathVars

\* Superblock.Readlink after FindInode(name, true) returned: ino.Readlink().
ReturnReadlink ==
    /\ pc = "found"
    /\ op = "Readlink"
    /\ pc' = "done"
    /\ IF err # "nil"
       THEN UNCHANGED <<err, link>>
       ELSE /\ err' = InodeReadlink(res).err
            /\ link' = InodeReadlink(res).target
    /\ UNCHANGED <<op, path, start, followSymlinks, cur, parent, name,
                   symlinkRedirects, res, finalExp, midExp>>
    /\ UNCHANGED notPathVars

PathNext == Iterate \/ ReturnFindInodeAt \/ ReturnReadlink

SpecPath == PathInit /\ [][PathNext]_vars

\* Longest path, in components, of the calls whose return is checked.
MaxWalkComponents == 2

\* The paths of those calls: every path of that many components, and the
\* paths that enter the chain of links.
WalkPaths ==
    {Join(cs) : cs \in SeqsUpTo(Components, 1, MaxWalkComponents)}
    \cup {Join(<<h>>) : h \in ChainHeads}

\* No call has been made yet.
WalkInit ==
    /\ PathIdle
    /\ SuperIdle
    /\ FileIdle
    /\ DirIdle
    /\ LifeIdle
    /\ CacheIdle
    /\ OpenIdle
    /\ TableIdle
    /\ ReaderIdle
    /\ LookupIdle

\* A caller calls FindInodeAt(start, path, follow) or Readlink(path): the
\* state PathInit describes.
Call ==
    /\ pc = "idle"
    /\ \E o \in {"FindInodeAt", "Readlink"}, n \in WalkPaths :
         \E c \in (IF o = "Readlink" THEN {RootIno} ELSE Starts),
            follow \in (IF o = "Readlink" THEN {TRUE} ELSE BOOLEAN) :
            /\ op' = o
            /\ path' = n
            /\ start' = c
            /\ followSymlinks' = follow
            /\ cur' = c
            /\ parent' = c
            /\ name' = n
            /\ pc' = IF o = "Readlink" /\ ~ValidPath(n) THEN "done" ELSE "walk"
            /\ err' = IF o = "Readlink" /\ ~ValidPath(n) THEN ErrInvalid ELSE "nil"
    /\ symlinkRedirects' = MaxSymlinkRedirects
    /\ res' = NoInode
    /\ link' = <<>>
    /\ finalExp' = 0
    /\ midExp' = 0
    /\ UNCHANGED notPathVars

\* A call is made and the goroutine that made it keeps running it: a call
\* that can take a step takes one.
SpecWalk == WalkInit /\ [][Call \/ PathNext]_vars /\ WF_vars(Call \/ PathNext)

-----------------------------------------------------------------------------
(* Properties of the path resolver *)

\* The component the walk looks at next, and whether it is the last one.
NextIsFinal == IndexByte(name, "/") = -1
NextComponent == IF NextIsFinal THEN name ELSE SliceTo(name, IndexByte(name, "/"))
NextLookup == lookupRelativeInode(cur, NextComponent)

\* The walk is at a component that names an existing entry of the directory cur.
AtEntry ==
    /\ pc = "walk"
    /\ Len(NextComponent) > 0
    /\ IsDir(cur)
    /\ NextLookup.err = "nil"

\* The walk is at a symbolic link that it has to expand.
AtLinkToExpand ==
    /\ AtEntry
    /\ TypeIsSymlink(Inodes[NextLookup.ino].Type)
    /\ (NextIsFinal => followSymlinks)

Expansions == finalExp + midExp

\* C4: Readlink(name), for a valid path whose final component is a symbolic
\* link, returns the target text stored in that link. The link a path names is
\* the inode the path resolves to when its final component is not followed.
C4_ReadlinkReturnsTarget ==
    LET l == FindInode(path, FALSE) IN
    (/\ pc = "done"
     /\ op = "Readlink"
     /\ ValidPath(path)
     /\ l.err = "nil"
     /\ TypeIsSymlink(Inodes[l.res].Type))
    => (err = "nil" /\ link = Inodes[l.res].SymTarget)

\* C5: when followSymlinks is set and the final component is a symbolic link,
\* the walk goes on from the directory that contains the link.
C5_FinalLinkResolvedFromItsDirectory ==
    [][(AtLinkToExpand /\ NextIsFinal /\ finalExp' = finalExp + 1)
        => cur' = DirOf(NextLookup.ino)]_vars

\* C6: at a non-final symbolic link with a relative target T the walk goes
\* on from the directory containing the link (cur and parent unchanged) with
\* the path T, the "/" and the remaining components; and a call whose first
\* component is such a link a -> b returns what the same call on b/rest
\* returns, unless the one more expansion exhausts the redirect budget.
C6_NonFinalLinkPrepended ==
    /\ (AtLinkToExpand /\ ~NextIsFinal /\ ~RedirectsExhausted(symlinkRedirects)
        /\ ~BadTarget(Inodes[NextLookup.ino].SymTarget))
       => LET T == Inodes[NextLookup.ino].SymTarget
              rest == Join(Tail(Split(name)))
              n == FindInodeAtIter(Locals)
          IN /\ n.pc = "walk"
             /\ n.cur = DirOf(NextLookup.ino)
             /\ n.cur = cur
             /\ n.parent = parent
             /\ n.name = T \o <<"/">> \o rest
    /\ (pc = "done" /\ op = "FindInodeAt" /\ err # ErrTooManySymlinks)
       => LET cs == Split(path)
              a == lookupRelativeInode(start, cs[1])
          IN (/\ Len(cs) > 1
              /\ Len(cs[1]) > 0
              /\ a.err = "nil"
              /\ TypeIsSymlink(Inodes[a.ino].Type)
              /\ ~BadTarget(Inodes[a.ino].SymTarget))
             => LET b == FindInodeAt(start,
                                     Inodes[a.ino].SymTarget \o <<"/">> \o Join(Tail(cs)),
                                     followSymlinks)
                IN res = b.res /\ err = b.err

\* A call went through a non-final link and resolved.
C6_Witness ==
    /\ pc = "done"
    /\ op = "FindInodeAt"
    /\ err = "nil"
    /\ path = <<"s", "/", "f">>
    /\ res = 5
    /\ midExp = 1

\* C7: one call makes at most 40 symlink expansions, final and non-final
\* ones counted together; it fails with ErrTooManySymlinks exactly when a 41st
\* is required, and not before.
C7_RedirectBudget ==
    /\ MaxSymlinkRedirects = 40
    /\ Expansions <= 40
    /\ pc = "walk" => symlinkRedirects = 40 - Expansions
    /\ err = ErrTooManySymlinks => Expansions = 40
    /\ (AtLinkToExpand /\ Expansions = 40)
       => (FindInodeAtIter(Locals).pc = "found"
           /\ FindInodeAtIter(Locals).err = ErrTooManySymlinks)
    /\ (AtLinkToExpand /\ Expansions < 40)
       => FindInodeAtIter(Locals).err # ErrTooManySymlinks

\* A call resolved after exactly 40 expansions, some final and some not.
C7_Witness ==
    /\ pc = "done"
    /\ err = "nil"
    /\ res # NoInode
    /\ Expansions = 40
    /\ finalExp > 0
    /\ midExp > 0

\* C8: a non-final component that resolves to an inode that is neither a
\* directory nor a symbolic link ends the call with ErrNotDirectory, whatever
\* follows it in the path.
C8_NonFinalNonDirectory ==
    (/\ AtEntry
     /\ ~NextIsFinal
     /\ ~TypeIsDir(Inodes[NextLookup.ino].Type)
     /\ ~TypeIsSymlink(Inodes[NextLookup.ino].Type))
    => LET n == FindInodeAtIter(Locals)
       IN n.pc = "found" /\ n.err = ErrNotDirectory /\ n.res = NoInode

\* A call ended with ErrNotDirectory at a file reached through a link, with
\* more than one component after it.
C8_Witness ==
    /\ pc = "done"
    /\ err = ErrNotDirectory
    /\ path = <<"t", "/", "f", "/", "l">>

\* C9: a ".." component resolves to the parent directory of the current
\* directory.
C9_DotDotIsParent ==
    [][(/\ pc = "walk"
        /\ NextComponent = <<".", ".">>
        /\ IsDir(cur)
        /\ cur # RootIno)
       => IF NextIsFinal
          THEN pc' = "found" /\ err' = "nil" /\ res' = DirOf(cur)
          ELSE pc' = "walk" /\ cur' = DirOf(cur)]_vars

\* C30: every call of FindInodeAt returns, on an image whose links form
\* cycles too: an iteration of the loop that does not return either leaves
\* the redirect budget alone and shortens the remaining path, or takes one
\* redirect from the budget, which never falls below zero.
C30_WalkTerminates ==
    /\ [][(pc = "walk" /\ pc' = "walk")
          => \/ symlinkRedirects' = symlinkRedirects /\ Len(name') < Len(name)
             \/ symlinkRedirects' = symlinkRedirects - 1 /\ symlinkRedirects' >= 0]_vars
    /\ <>(pc = "done")

\* A walk from the root through the link z, which names itself, has returned
\* after using up the redirect budget.
C30_Witness ==
    /\ pc = "done"
    /\ path = <<"z">>
    /\ followSymlinks
    /\ Expansions = MaxSymlinkRedirects
    /\ err = ErrTooManySymlinks

-----------------------------------------------------------------------------
(* The superblock decoder (super.go New, UnmarshalBinary) *)

ErrInvalidFile == "ErrInvalidFile"
ErrInvalidSuper == "ErrInvalidSuper"
ErrInvalidVersion == "ErrInvalidVersion"
ErrEOF == "io.EOF"
ErrRootInode == "GetInodeRef error"

SuperblockSize == 96

\* The bytes of the characters a magic can be made of.
ByteOf(c) == CASE c = "h" -> 104 [] c = "s" -> 115 [] c = "q" -> 113 [] OTHER -> 120

\* binary.LittleEndian / binary.BigEndian over a field's bytes.  A 32-bit
\* value is the pair <<high 16 bits, low 16 bits>>.
Uint16(order, b) ==
    IF order = "LittleEndian" THEN b[1] + 256 * b[2] ELSE b[2] + 256 * b[1]

Uint32(order, b) ==
    IF order = "LittleEndian"
    THEN <<b[3] + 256 * b[4], b[1] + 256 * b[2]>>
    ELSE <<b[2] + 256 * b[1], b[4] + 256 * b[3]>>

PutUint16(order, v) ==
    IF order = "LittleEndian" THEN <<v % 256, v \div 256>> ELSE <<v \div 256, v % 256>>

PutUint32(order, v) ==
    IF order = "LittleEndian"
    THEN PutUint16(order, v[2]) \o PutUint16(order, v[1])
    ELSE PutUint16(order, v[1]) \o PutUint16(order, v[2])

\* 0x73717368
SquashfsMagic == <<29553, 29544>>

\* uint32(1) << n for a 16-bit shift count n: the bit leaves the 32-bit word
\* when n >= 32.
ShiftLeftOne(n) ==
    IF n < 16 THEN <<0, 2 ^ n>>
    ELSE IF n < 32 THEN <<2 ^ (n - 16), 0>>
    ELSE <<0, 0>>

\* s.VMajor != 4 || s.VMinor != 0
VersionUnsupported(s) == s.VMajor # 4 \/ s.VMinor # 0

\* Superblock.UnmarshalBinary over the header bytes hdr; len is len(data).
UnmarshalBinary(hdr, len) ==
    IF len # SuperblockSize THEN [err |-> ErrInvalidSuper, sb |-> <<>>]
    ELSE IF hdr.magic \notin {<<"h", "s", "q", "s">>, <<"s", "q", "s", "h">>}
    THEN [err |-> ErrInvalidFile, sb |-> <<>>]
    ELSE
      LET order == IF hdr.magic = <<"h", "s", "q", "s">>
                   THEN "LittleEndian" ELSE "BigEndian"
          s == [order |-> order,
                Magic |-> Uint32(order, [i \in 1..4 |-> ByteOf(hdr.magic[i])]),
                BlockSize |-> Uint32(order, hdr.block_size),
                BlockLog |-> Uint16(order, hdr.block_log),
                VMajor |-> Uint16(order, hdr.version_major),
                VMinor |-> Uint16(order, hdr.version_minor)]
      IN IF s.Magic # SquashfsMagic THEN [err |-> ErrInvalidFile, sb |-> s]
         ELSE IF ShiftLeftOne(s.BlockLog) # s.BlockSize
         THEN [err |-> ErrInvalidSuper, sb |-> s]
         ELSE [err |-> "nil", sb |-> s]

\* Headers handed to New: every magic below, with the fields written in
\* either byte order.
Magics == {<<"h", "s", "q", "s">>, <<"s", "q", "s", "h">>,
           <<"h", "s", "q", "x">>, <<"s", "h", "s", "q">>}
BlockLogs == {0, 11, 12, 17, 20, 31, 32, 48, 65535}
BlockSizes == {<<0, 0>>, <<0, 1>>, <<0, 2048>>, <<0, 4096>>, <<2, 0>>,
               <<16, 0>>, <<32768, 0>>, <<1, 0>>, <<65535, 65535>>}
VersionMajors == {3, 4, 5}
VersionMinors == {0, 1}
ImageSizes == {95, 96, 4096}

Header(magic, order, size, log, major, minor) ==
    [magic |-> magic,
     block_size |-> PutUint32(order, size),
     block_log |-> PutUint16(order, log),
     version_major |-> PutUint16(order, major),
     version_minor |-> PutUint16(order, minor)]

\* Most ids an image's ID table holds.
MaxIds == 2

\* The ID table of an image: sb.IdCount, the ids the table holds, and how
\* much of it can be read: -1 when the table's pointer list or first block
\* cannot be read, else the number of ids that can be read before the
\* reader fails (IdCount when it does not fail).
IdImage(n, k) == [IdCount |-> n, ids |-> [i \in 1..n |-> 1000 + i], readable |-> k]

ErrIdTable == "newIndirectTableReader error"
ErrUnexpectedEOF == "io.ErrUnexpectedEOF"

\* Superblock.readIdTable on the ID table im: the sb.idTable it leaves and
\* the error it returns.  make([]uint32, sb.IdCount) is filled with zeroes.
readIdTable(im) ==
    IF im.readable < 0
    THEN [idTable |-> <<>>, err |-> ErrIdTable]
    ELSE [idTable |-> [i \in 1..im.IdCount |->
                          IF i <= im.readable THEN im.ids[i] ELSE 0],
          err |-> IF im.readable < im.IdCount THEN ErrUnexpectedEOF ELSE "nil"]

SuperInit ==
    /\ \E magic \in Magics, order \in {"LittleEndian", "BigEndian"},
          size \in BlockSizes, log \in BlockLogs,
          major \in VersionMajors, minor \in VersionMinors, n \in ImageSizes :
          fs = [size |-> n, head |-> Header(magic, order, size, log, major, minor)]
    /\ rootReadable \in BOOLEAN
    /\ idImage = IdImage(MaxIds, MaxIds)
    /\ idTable = <<>>
    /\ newPc = "ReadAt"
    /\ sb = <<>>
    /\ newRes = "none"
    /\ newErr = "nil"
    /\ PathIdle
    /\ FileIdle
    /\ DirIdle
    /\ LifeIdle
    /\ CacheIdle
    /\ OpenIdle
    /\ TableIdle
    /\ ReaderIdle
    /\ LookupIdle

NewReturn(e) ==
    /\ newPc' = "done"
    /\ newRes' = IF e = "nil" THEN "sb" ELSE "nil"
    /\ newErr' = e

\* head := make([]byte, SuperblockSize); _, err := fs.ReadAt(head, 0)
NewReadAt ==
    /\ newPc = "ReadAt"
    /\ IF fs.size < SuperblockSize
       THEN NewReturn(ErrEOF)
       ELSE newPc' = "UnmarshalBinary" /\ UNCHANGED <<newRes, newErr>>
    /\ UNCHANGED <<fs, rootReadable, sb, idImage, idTable>>
    /\ UNCHANGED notSuperVars

\* err = sb.UnmarshalBinary(head)
NewUnmarshalBinary ==
    /\ newPc = "UnmarshalBinary"
    /\ LET r == UnmarshalBinary(fs.head, SuperblockSize)
       IN /\ sb' = r.sb
          /\ IF r.err # "nil"
             THEN NewReturn(r.err)
             ELSE newPc' = "version" /\ UNCHANGED <<newRes, newErr>>
    /\ UNCHANGED <<fs, rootReadable, idImage, idTable>>
    /\ UNCHANGED notSuperVars

\* if sb.VMajor != 4 || sb.VMinor != 0 { return nil, ErrInvalidVersion }
NewCheckVersion ==
    /\ newPc = "version"
    /\ IF VersionUnsupported(sb)
       THEN NewReturn(ErrInvalidVersion)
       ELSE newPc' = "root" /\ UNCHANGED <<newRes, newErr>>
    /\ UNCHANGED <<fs, rootReadable, sb, idImage, idTable>>
    /\ UNCHANGED notSuperVars

\* sb.rootIno, err = sb.GetInodeRef(sb.RootInode); if err != nil { return nil, err }
NewGetRoot ==
    /\ newPc = "root"
    /\ IF rootReadable
       THEN newPc' = "readIdTable" /\ UNCHANGED <<newRes, newErr>>
       ELSE NewReturn(ErrRootInode)
    /\ UNCHANGED <<fs, rootReadable, sb, idImage, idTable>>
    /\ UNCHANGED notSuperVars

\* sb.readIdTable(); return sb, nil
NewReadIdTable ==
    /\ newPc = "readIdTable"
    /\ idTable' = readIdTable(idImage).idTable
    /\ NewReturn("nil")
    /\ UNCHANGED <<fs, rootReadable, sb, idImage>>
    /\ UNCHANGED notSuperVars

SuperNext ==
    NewReadAt \/ NewUnmarshalBinary \/ NewCheckVersion \/ NewGetRoot \/ NewReadIdTable

SpecSuper == SuperInit /\ [][SuperNext]_vars

-----------------------------------------------------------------------------
(* Properties of the superblock decoder *)

\* The header's fields as the format defines them: in the byte order its
\* magic announces.
HeaderOrder == IF fs.head.magic = <<"s", "q", "s", "h">> THEN "BigEndian" ELSE "LittleEndian"
HeaderBlockLog == Uint16(HeaderOrder, fs.head.block_log)
HeaderBlockSize == Uint32(HeaderOrder, fs.head.block_size)
HeaderVersion == <<Uint16(HeaderOrder, fs.head.version_major),
                   Uint16(HeaderOrder, fs.head.version_minor)>>

HeaderMagicGood == fs.head.magic \in {<<"h", "s", "q", "s">>, <<"s", "q", "s", "h">>}

\* 2^block_log = block_size over the naturals; block_size is below 2^32.
HeaderBlockLogGood ==
    \/ HeaderBlockLog < 16 /\ HeaderBlockSize = <<0, 2 ^ HeaderBlockLog>>
    \/ /\ HeaderBlockLog >= 16 /\ HeaderBlockLog < 32
       /\ HeaderBlockSize = <<2 ^ (HeaderBlockLog - 16), 0>>

HeaderVersionGood == HeaderVersion = <<4, 0>>

NewReturned == newPc = "done" /\ fs.size >= SuperblockSize

\* C10: New returns a Superblock for a 96-byte header only if the magic is
\* "hsqs" or "sqsh", 1 << block_log equals block_size and the version is 4.0;
\* a header failing one of these gets ErrInvalidFile, ErrInvalidSuper or
\* ErrInvalidVersion respectively, and no Superblock.
C10_NewAcceptsOnlyValidHeaders ==
    NewReturned =>
        /\ newRes = "sb" =>
              HeaderMagicGood /\ HeaderBlockLogGood /\ HeaderVersionGood
        /\ ~HeaderMagicGood => newRes = "nil" /\ newErr = ErrInvalidFile
        /\ (HeaderMagicGood /\ ~HeaderBlockLogGood) =>
              newRes = "nil" /\ newErr = ErrInvalidSuper
        /\ (HeaderMagicGood /\ HeaderBlockLogGood /\ ~HeaderVersionGood) =>
              newRes = "nil" /\ newErr = ErrInvalidVersion

\* C10: the same statement for the headers whose block_log is below the
\* width of block_size, which New does treat as stated.
C10_HoldsBelowWordWidth ==
    (NewReturned /\ HeaderBlockLog < 32) =>
        /\ newRes = "sb" =>
              HeaderMagicGood /\ HeaderBlockLogGood /\ HeaderVersionGood
        /\ ~HeaderMagicGood => newRes = "nil" /\ newErr = ErrInvalidFile
        /\ (HeaderMagicGood /\ ~HeaderBlockLogGood) =>
              newRes = "nil" /\ newErr = ErrInvalidSuper
        /\ (HeaderMagicGood /\ HeaderBlockLogGood /\ ~HeaderVersionGood) =>
              newRes = "nil" /\ newErr = ErrInvalidVersion

\* The block sizes of the format: the powers of two from 4 KiB to 1 MiB.
FormatBlockSizes ==
    {<<0, 2 ^ n>> : n \in 12..15} \cup {<<2 ^ (n - 16), 0>> : n \in 16..20}

\* C19: the block size of every Superblock New returns is a power of two
\* from 4 KiB to 1 MiB, whatever block_log and block_size the header holds.
C19_AcceptedBlockSize ==
    (newPc = "done" /\ newRes = "sb") => sb.BlockSize \in FormatBlockSizes

-----------------------------------------------------------------------------
(* Byte strings.  A byte string is a sequence of pieces, each a run of      *)
(* bytes of one origin: bytes lo..hi-1 of the source file ("src"), hi zero  *)
(* bytes ("zero"), bytes lo..hi-1 of the compressed stream id ("z"), or     *)
(* bytes lo..hi-1 of some other content id ("other").  Adjacent runs that   *)
(* continue one another are one piece, so equal byte strings are equal      *)
(* sequences.                                                               *)

Piece(k, id, lo, hi) ==
    IF hi <= lo THEN <<>> ELSE <<[k |-> k, id |-> id, lo |-> lo, hi |-> hi]>>

Zeroes(n) == Piece("zero", 0, 0, n)
Source(lo, hi) == Piece("src", 0, lo, hi)
Stream(id, lo, hi) == Piece("z", id, lo, hi)
Other(id, lo, hi) == Piece("other", id, lo, hi)

Joins(x, y) == x.k = y.k /\ x.id = y.id /\ (x.k = "zero" \/ x.hi = y.lo)

Merged(x, y) ==
    IF x.k = "zero" THEN [x EXCEPT !.hi = x.hi + y.hi] ELSE [x EXCEPT !.hi = y.hi]

\* append(a, b...)
Cat(a, b) ==
    IF a = <<>> THEN b
    ELSE IF b = <<>> THEN a
    ELSE IF Joins(a[Len(a)], b[1])
    THEN SubSeq(a, 1, Len(a) - 1) \o <<Merged(a[Len(a)], b[1])>> \o Tail(b)
    ELSE a \o b

\* len(b)
RECURSIVE ByteLen(_)
ByteLen(b) == IF b = <<>> THEN 0 ELSE (b[1].hi - b[1].lo) + ByteLen(Tail(b))

DropPiece(x, n) ==
    IF x.k = "zero" THEN [x EXCEPT !.hi = x.hi - n] ELSE [x EXCEPT !.lo = x.lo + n]

\* b[n:], for n <= len(b)
RECURSIVE Drop(_, _)
Drop(b, n) ==
    IF n <= 0 \/ b = <<>> THEN b
    ELSE LET l == b[1].hi - b[1].lo
         IN IF n >= l THEN Drop(Tail(b), n - l)
            ELSE <<DropPiece(b[1], n)>> \o Tail(b)

\* b[:n], for n <= len(b)
RECURSIVE Take(_, _)
Take(b, n) ==
    IF n <= 0 \/ b = <<>> THEN <<>>
    ELSE LET l == b[1].hi - b[1].lo
         IN IF n >= l THEN <<b[1]>> \o Take(Tail(b), n - l)
            ELSE <<[b[1] EXCEPT !.hi = b[1].lo + n]>>

Min(a, b) == IF a < b THEN a ELSE b

-----------------------------------------------------------------------------
(* Data blocks of regular files (writer.go writeFileData, inode.go) *)

\* Most data blocks of the file.
MaxBlocks == 2

DefaultBlockSize == 131072

\* 0x1000000: the bit of a block size word that marks a block stored uncompressed.
UncompressedFlag == 16777216

\* 0xfffff
BlockLenMask == 1048575

\* 0x1000000-1
FragmentLenMask == 16777215

\* 0xffffffff as a 32-bit pattern (two's complement).
NoFragment == -1

\* x & mask, for a mask of the form 2^k - 1
BitAnd(x, mask) == x % (mask + 1)

\* x & flag != 0, for a flag of the form 2^k
BitSet(x, flag) == (x \div flag) % 2 = 1

\* x | flag
BitOr(x, flag) == IF BitSet(x, flag) THEN x ELSE x + flag

\* len(compressed) for a block of n bytes: the compressor either gains
\* (about half the block) or does not (the stream is longer than the block).
CompressedLens(n) == {(n + 1) \div 2, n + 18}

BlockSizeChoices == {4096, DefaultBlockSize, 1048576}

FileSizes(bs) ==
    {0, 1, bs - 1, MaxBlocks * bs}
    \cup {k * bs : k \in 1..(MaxBlocks - 1)} \cup {k * bs + 1 : k \in 1..(MaxBlocks - 1)}

\* fs.ReadAt(buf, pos) with len(buf) = n
ReadDisk(d, pos, n) ==
    [buf |-> Take(Drop(d, pos), n),
     err |-> IF pos + n > ByteLen(d) THEN "io.EOF" ELSE "nil"]

\* Comp.decompress(buf): buf has to be one whole compressed stream.
Decompress(buf, strs) ==
    IF /\ Len(buf) = 1 /\ buf[1].k = "z" /\ buf[1].id \in DOMAIN strs
       /\ buf[1].lo = 0 /\ buf[1].hi = strs[buf[1].id].len
    THEN [buf |-> strs[buf[1].id].data, err |-> "nil"]
    ELSE [buf |-> <<>>, err |-> "decompress error"]

NoRead == [n |-> -1, data |-> <<>>, err |-> "none"]

\* The byte ranges read: a <= b <= c at block boundaries, next to them, and
\* at the end of the file.
Points(bs, size) ==
    {x \in {k * bs + d : k \in 0..MaxBlocks, d \in {-1, 0, 1}} \cup {size - 1, size} :
        x >= 0 /\ x <= size}

Ranges(bs, size) ==
    {<<a, b, c>> : a \in Points(bs, size), b \in Points(bs, size), c \in Points(bs, size)}

\* NewWriter: the image holds the blank superblock, w.offset is past it.
WriterInit ==
    /\ producer = "Writer"
    /\ blockSize \in BlockSizeChoices
    /\ \E size \in FileSizes(blockSize) : data = Source(0, size)
    /\ wOffset = SuperblockSize
    /\ disk = Zeroes(SuperblockSize)
    /\ streams = <<>>
    /\ dataBlocks = <<>>
    /\ startBlock = 0
    /\ loopOffset = 0
    /\ filePc = "Finalize"
    /\ dInode = <<>>
    /\ fragTable = <<>>
    /\ ino = <<>>

\* Finalize: write(placeholder)
FinalizePlaceholder ==
    /\ filePc = "Finalize"
    /\ disk' = Cat(disk, Zeroes(SuperblockSize))
    /\ wOffset' = wOffset + SuperblockSize
    /\ filePc' = "writeFileData"
    /\ UNCHANGED <<producer, blockSize, data, streams, dataBlocks, startBlock,
                   loopOffset, dInode, fragTable, ino, range, got>>
    /\ UNCHANGED notFileVars

\* writeFileData, up to the block loop: a file of size 0 is skipped.
WriteFileDataEnter ==
    /\ filePc = "writeFileData"
    /\ IF ByteLen(data) = 0
       THEN filePc' = "serializeInode" /\ UNCHANGED <<startBlock, dataBlocks, loopOffset>>
       ELSE /\ startBlock' = wOffset
            /\ dataBlocks' = <<>>
            /\ loopOffset' = 0
            /\ filePc' = "block"
    /\ UNCHANGED <<producer, blockSize, data, wOffset, disk, streams, dInode,
                   fragTable, ino, range, got>>
    /\ UNCHANGED notFileVars

\* One iteration of the block loop of writeFileData.
WriteBlock ==
    /\ filePc = "block"
    /\ loopOffset < ByteLen(data)
    /\ LET end == Min(loopOffset + blockSize, ByteLen(data))
           n == end - loopOffset
           block == Take(Drop(data, loopOffset), n)
       IN \E c \in CompressedLens(n) :
            IF c >= n
            THEN /\ disk' = Cat(disk, block)
                 /\ wOffset' = wOffset + n
                 /\ dataBlocks' = Append(dataBlocks, BitOr(n, UncompressedFlag))
                 /\ UNCHANGED streams
            ELSE /\ streams' = Append(streams, [len |-> c, data |-> block])
                 /\ disk' = Cat(disk, Stream(Len(streams) + 1, 0, c))
                 /\ wOffset' = wOffset + c
                 /\ dataBlocks' = Append(dataBlocks, c)
    /\ loopOffset' = loopOffset + blockSize
    /\ UNCHANGED <<producer, blockSize, data, startBlock, filePc, dInode,
                   fragTable, ino, range, got>>
    /\ UNCHANGED notFileVars

\* The block loop of writeFileData ends.
WriteFileDataDone ==
    /\ filePc = "block"
    /\ loopOffset >= ByteLen(data)
    /\ filePc' = "serializeInode"
    /\ UNCHANGED <<producer, blockSize, data, wOffset, disk, streams, dataBlocks,
                   startBlock, loopOffset, dInode, fragTable, ino, range, got>>
    /\ UNCHANGED notFileVars

\* serializeInode, case FileType.
SerializeFileInode ==
    /\ filePc = "serializeInode"
    /\ dInode' = [Type |-> FileType, StartBlock |-> startBlock,
                  FragBlock |-> NoFragment, FragOfft |-> 0,
                  Size |-> ByteLen(data), BlockList |-> dataBlocks]
    /\ filePc' = "GetInodeRef"
    /\ UNCHANGED <<producer, blockSize, data, wOffset, disk, streams, dataBlocks,
                   startBlock, loopOffset, fragTable, ino, range, got>>
    /\ UNCHANGED notFileVars

-----------------------------------------------------------------------------
(* Images of other producers: blocks stored raw, compressed or sparse, the  *)
(* tail of the file in a last block or in a fragment block.                 *)

\* Bytes of other files that precede the tail in its fragment block.
FragLead == 7

BlockKinds == {"raw", "comp", "sparse"}
TailKinds == {"block", "rawfragment", "compfragment"}

\* The image after laying blocks 1..k of the file.
RECURSIVE LayBlocks(_, _, _, _)
LayBlocks(bs, size, kinds, k) ==
    IF k = 0
    THEN [disk |-> Other(0, 0, SuperblockSize), streams |-> <<>>,
          words |-> <<>>, content |-> <<>>, sparse |-> FALSE]
    ELSE
      LET st == LayBlocks(bs, size, kinds, k - 1)
          lo == (k - 1) * bs
          hi == Min(k * bs, size)
          c == (hi - lo + 1) \div 2
      IN IF kinds[k] = "sparse"
         THEN [st EXCEPT !.words = Append(@, 0),
                         !.content = Cat(@, Zeroes(hi - lo)),
                         !.sparse = TRUE]
         ELSE IF kinds[k] = "comp" /\ c < hi - lo
         THEN [st EXCEPT !.streams = Append(@, [len |-> c, data |-> Source(lo, hi)]),
                         !.disk = Cat(@, Stream(Len(st.streams) + 1, 0, c)),
                         !.words = Append(@, c),
                         !.content = Cat(@, Source(lo, hi))]
         ELSE [st EXCEPT !.disk = Cat(@, Source(lo, hi)),
                         !.words = Append(@, BitOr(hi - lo, UncompressedFlag)),
                         !.content = Cat(@, Source(lo, hi))]

ForeignImage(bs, size, kinds, tail) ==
    LET inFragment == tail # "block" /\ size % bs # 0
        blocks == IF inFragment THEN size \div bs ELSE (size + bs - 1) \div bs
        st == LayBlocks(bs, size, kinds, blocks)
        tlo == blocks * bs
        frag == Cat(Other(1, 0, FragLead), Source(tlo, size))
        flen == ByteLen(frag)
        c == (flen + 1) \div 2
        fstart == ByteLen(st.disk)
        type == IF st.sparse THEN XFileType ELSE FileType
    IN IF ~inFragment
       THEN [disk |-> st.disk, streams |-> st.streams, fragTable |-> <<>>,
             data |-> st.content,
             dInode |-> [Type |-> type, StartBlock |-> SuperblockSize,
                         FragBlock |-> NoFragment, FragOfft |-> 0,
                         Size |-> size, BlockList |-> st.words]]
       ELSE IF tail = "rawfragment"
       THEN [disk |-> st.disk \o frag, streams |-> st.streams,
             fragTable |-> <<[start |-> fstart, size |-> BitOr(flen, UncompressedFlag)]>>,
             data |-> Cat(st.content, Source(tlo, size)),
             dInode |-> [Type |-> type, StartBlock |-> SuperblockSize,
                         FragBlock |-> 0, FragOfft |-> FragLead,
                         Size |-> size, BlockList |-> st.words]]
       ELSE [disk |-> Cat(st.disk, Stream(Len(st.streams) + 1, 0, c)),
             streams |-> Append(st.streams, [len |-> c, data |-> frag]),
             fragTable |-> <<[start |-> fstart, size |-> c]>>,
             data |-> Cat(st.content, Source(tlo, size)),
             dInode |-> [Type |-> type, StartBlock |-> SuperblockSize,
                         FragBlock |-> 0, FragOfft |-> FragLead,
                         Size |-> size, BlockList |-> st.words]]

ForeignInit ==
    /\ producer = "mksquashfs"
    /\ blockSize \in BlockSizeChoices
    /\ \E size \in FileSizes(blockSize), kinds \in [1..MaxBlocks -> BlockKinds],
          tail \in TailKinds :
          LET img == ForeignImage(blockSize, size, kinds, tail)
          IN /\ data = img.data
             /\ disk = img.disk
             /\ streams = img.streams
             /\ fragTable = img.fragTable
             /\ dInode = img.dInode
    /\ wOffset = 0
    /\ dataBlocks = <<>>
    /\ startBlock = 0
    /\ loopOffset = 0
    /\ filePc = "GetInodeRef"
    /\ ino = <<>>

FileInit ==
    /\ WriterInit \/ ForeignInit
    /\ range \in Ranges(blockSize, ByteLen(data))
    /\ range[1] <= range[2] /\ range[2] <= range[3]
    /\ got = [whole |-> NoRead, left |-> NoRead, right |-> NoRead]
    /\ PathIdle
    /\ SuperIdle
    /\ DirIdle
    /\ LifeIdle
    /\ CacheIdle
    /\ OpenIdle
    /\ TableIdle
    /\ ReaderIdle
    /\ LookupIdle

-----------------------------------------------------------------------------
(* The reader (inode.go GetInodeRef cases 2 and 9, Inode.ReadAt) *)

\* offt after k block size words: offt += uint64(u32) & 0xfffff
RECURSIVE BlockOffset(_, _)
BlockOffset(words, k) ==
    IF k = 0 THEN 0 ELSE BlockOffset(words, k - 1) + BitAnd(words[k], BlockLenMask)

\* GetInodeRef, cases 2 and 9: the block list of a file inode.
ParseFileInode(d, bs) ==
    LET blocks == (d.Size \div bs) +
                  (IF d.FragBlock = NoFragment /\ d.Size % bs # 0 THEN 1 ELSE 0)
    IN IF Len(d.BlockList) < blocks
       THEN [err |-> "io.ErrUnexpectedEOF", ino |-> <<>>]
       ELSE [err |-> "nil",
             ino |-> [Type |-> d.Type, StartBlock |-> d.StartBlock,
                      FragBlock |-> d.FragBlock, FragOfft |-> d.FragOfft,
                      Size |-> d.Size,
                      Blocks |-> [k \in 1..blocks |-> d.BlockList[k]]
                                 \o (IF d.FragBlock # NoFragment
                                     THEN <<NoFragment>> ELSE <<>>),
                      BlocksOfft |-> [k \in 1..blocks |->
                                         BlockOffset(d.BlockList, k - 1)]]]

GetInodeRef ==
    /\ filePc = "GetInodeRef"
    /\ LET r == ParseFileInode(dInode, blockSize)
       IN /\ ino' = r.ino
          /\ filePc' = IF r.err = "nil" THEN "ReadAt" ELSE "done"
    /\ UNCHANGED <<producer, blockSize, data, wOffset, disk, streams, dataBlocks,
                   startBlock, loopOffset, dInode, fragTable, range, got>>
    /\ UNCHANGED notFileVars

\* The fragment case of ReadAt: the fragment block from FragOfft on.
ReadFragment(i, img) ==
    IF i.FragBlock + 1 \notin DOMAIN img.fragTable
    THEN [buf |-> <<>>, err |-> "io.EOF"]
    ELSE
      LET e == img.fragTable[i.FragBlock + 1]
          raw == ReadDisk(img.disk,  e.start,
                          IF BitSet(e.size, UncompressedFlag)
                          THEN BitAnd(e.size, FragmentLenMask) ELSE e.size)
          dec == IF raw.err # "nil" THEN raw
                 ELSE IF BitSet(e.size, UncompressedFlag) THEN raw
                 ELSE Decompress(raw.buf, img.streams)
      IN IF dec.err # "nil" THEN dec
         ELSE IF i.FragOfft > ByteLen(dec.buf)
         THEN [buf |-> <<>>, err |-> "panic: slice bounds out of range"]
         ELSE [buf |-> Drop(dec.buf, i.FragOfft), err |-> "nil"]

\* The default case of ReadAt: a stored block.
ReadStoredBlock(i, img, block) ==
    LET word == i.Blocks[block + 1]
        raw == ReadDisk(img.disk, i.StartBlock + i.BlocksOfft[block + 1],
                        BitAnd(word, BlockLenMask))
    IN IF raw.err # "nil" THEN raw
       ELSE IF ~BitSet(word, UncompressedFlag) THEN Decompress(raw.buf, img.streams)
       ELSE raw

\* The loop of ReadAt: p has plen bytes left, n bytes (acc) were copied.
RECURSIVE ReadAtLoop(_, _, _, _, _, _, _)
ReadAtLoop(i, img, block, offset, plen, n, acc) ==
    IF block + 1 \notin DOMAIN i.Blocks
    THEN [n |-> n, data |-> acc, err |-> "panic: index out of range"]
    ELSE
      LET word == i.Blocks[block + 1]
          rd == IF word = NoFragment THEN ReadFragment(i, img)
                ELSE IF word = 0
                THEN [buf |-> Zeroes(img.blockSize), err |-> "nil"]
                ELSE ReadStoredBlock(i, img, block)
      IN IF rd.err # "nil" THEN [n |-> n, data |-> acc, err |-> rd.err]
         ELSE IF offset > ByteLen(rd.buf)
         THEN [n |-> n, data |-> acc, err |-> "panic: slice bounds out of range"]
         ELSE
           LET buf == Drop(rd.buf, offset)
               l == Min(plen, ByteLen(buf))
               out == Cat(acc, Take(buf, l))
           IN IF l = plen THEN [n |-> n + l, data |-> out, err |-> "nil"]
              ELSE ReadAtLoop(i, img, block + 1, 0, plen - l, n + l, out)

\* Inode.ReadAt(p, off) with len(p) = plen.
ReadAt(i, img, plen, off) ==
    IF i.Type \notin {FileType, XFileType}
    THEN [n |-> 0, data |-> <<>>, err |-> ErrInvalid]
    ELSE IF off >= i.Size THEN [n |-> 0, data |-> <<>>, err |-> "io.EOF"]
    ELSE ReadAtLoop(i, img, off \div img.blockSize, off % img.blockSize,
                    IF off + plen > i.Size THEN i.Size - off ELSE plen, 0, <<>>)

Image == [disk |-> disk, streams |-> streams, fragTable |-> fragTable,
          blockSize |-> blockSize]

ReadWhole ==
    /\ filePc = "ReadAt"
    /\ got.whole = NoRead
    /\ got' = [got EXCEPT !.whole = ReadAt(ino, Image, range[3] - range[1], range[1])]
    /\ UNCHANGED <<producer, blockSize, data, wOffset, disk, streams, dataBlocks,
                   startBlock, loopOffset, filePc, dInode, fragTable, ino, range>>
    /\ UNCHANGED notFileVars

ReadLeft ==
    /\ filePc = "ReadAt"
    /\ got.left = NoRead
    /\ got' = [got EXCEPT !.left = ReadAt(ino, Image, range[2] - range[1], range[1])]
    /\ UNCHANGED <<producer, blockSize, data, wOffset, disk, streams, dataBlocks,
                   startBlock, loopOffset, filePc, dInode, fragTable, ino, range>>
    /\ UNCHANGED notFileVars

ReadRight ==
    /\ filePc = "ReadAt"
    /\ got.right = NoRead
    /\ got' = [got EXCEPT !.right = ReadAt(ino, Image, range[3] - range[2], range[2])]
    /\ UNCHANGED <<producer, blockSize, data, wOffset, disk, streams, dataBlocks,
                   startBlock, loopOffset, filePc, dInode, fragTable, ino, range>>
    /\ UNCHANGED notFileVars

FileNext ==
    \/ FinalizePlaceholder \/ WriteFileDataEnter \/ WriteBlock \/ WriteFileDataDone
    \/ SerializeFileInode \/ GetInodeRef \/ ReadWhole \/ ReadLeft \/ ReadRight

SpecFile == FileInit /\ [][FileNext]_vars

-----------------------------------------------------------------------------
(* Properties of the file round trip and of ReadAt *)

Returned(r) == r.err \in {"nil", "io.EOF"}

\* C1: a file added to a Writer with a source filesystem and read back from
\* the finalized image has exactly the bytes of the source file, for every
\* size: 0, less than a block, one block, several blocks.
C1_FileRoundTrip ==
    (/\ producer = "Writer" /\ got # <<>> /\ got.whole # NoRead
     /\ range[1] = 0 /\ range[3] = ByteLen(data))
    => Returned(got.whole) /\ got.whole.data = data

\* C3: the bytes of one ReadAt over a range of a file equal the bytes of
\* ReadAt over the parts of any partition of the range, wherever the split is.
C3_ReadAtComposes ==
    (/\ got # <<>> /\ got.whole # NoRead /\ got.left # NoRead /\ got.right # NoRead)
    => /\ Returned(got.whole) /\ Returned(got.left) /\ Returned(got.right)
       /\ got.whole.data = Cat(got.left.data, got.right.data)

\* C1, C3: both hold in every image that has no data block of 1 MiB stored
\* uncompressed, the one block size word whose length the reader's mask cuts.
FullMiBBlockStored ==
    \E k \in DOMAIN dInode.BlockList :
        BitAnd(dInode.BlockList[k], FragmentLenMask) > BlockLenMask

C1_HoldsBelowMask ==
    (/\ producer = "Writer" /\ got # <<>> /\ got.whole # NoRead
     /\ range[1] = 0 /\ range[3] = ByteLen(data) /\ ~FullMiBBlockStored)
    => Returned(got.whole) /\ got.whole.data = data

C3_HoldsBelowMask ==
    (/\ got # <<>> /\ got.whole # NoRead /\ got.left # NoRead /\ got.right # NoRead
     /\ ~FullMiBBlockStored)
    => /\ Returned(got.whole) /\ Returned(got.left) /\ Returned(got.right)
       /\ got.whole.data = Cat(got.left.data, got.right.data)
       /\ got.whole.data = Take(Drop(data, range[1]), range[3] - range[1])

\* The length a producer stored in a block size word: the word without its
\* flag bit (writeFileData: uint32(len(compressed)), or uint32(len(block))
\* with the flag set).
LenStored(word) == word % UncompressedFlag

\* Where block k starts after StartBlock: the lengths stored before it.
RECURSIVE StartOf(_, _)
StartOf(words, k) ==
    IF k = 1 THEN 0 ELSE StartOf(words, k - 1) + LenStored(words[k - 1])

\* C28: for every data block of a file, at every block size from 4 KiB to
\* 1 MiB, compressed or stored as it is, the length the reader takes from the
\* low 20 bits of the block size word is the length the block has on disk,
\* and so is the place where the reader looks for the block.
C28_BlockLengthRecovered ==
    ino # <<>> =>
        \A k \in DOMAIN ino.BlocksOfft :
            /\ BitAnd(ino.Blocks[k], BlockLenMask) = LenStored(dInode.BlockList[k])
            /\ ino.BlocksOfft[k] = StartOf(dInode.BlockList, k)

-----------------------------------------------------------------------------
(* The directory table (writer.go prepareDirectories, buildInodeTableToBuffer, *)
(* computeDirectoryTableOffsets, serializeInode; dir.go dirReader, ReadDir).   *)
(* Directory data is a sequence of items, chunk headers and entries, each      *)
(* with its position (at) and its length (len) in bytes; a name is its sort    *)
(* key and its length.                                                         *)

\* Most subdirectories of the tree.
MaxSubdirs == 3

\* Files of a directory that has many.
ManyFiles == 16

maxMetadataBlockSize == 8192
indexInterval == 256

\* Bytes of a chunk header and of an entry without its name (dir.go readHeader, nextfull).
DirHeaderLen == 12
DirEntryLen == 8

\* Bytes of the inodes serializeInode writes.
InodeHeaderLen == 16
DirInodeLen == InodeHeaderLen + 16
XDirInodeLen == InodeHeaderLen + 24
DirIndexLen == 12
FileInodeLen == InodeHeaderLen + 16

\* uint16(x)
U16(x) == x % 65536

NameLens == {1, 255}
FileCounts == {0, 1, ManyFiles}

\* Inode number of directory i (0 is the root) when each directory is added
\* and then its files: counts[i + 1] is the number of files of directory i.
RECURSIVE DirIno(_, _)
DirIno(counts, i) ==
    IF i = 0 THEN 1 ELSE DirIno(counts, i - 1) + counts[i] + 1

\* w.inodes after the Add calls of a tree of n subdirectories, all children
\* of the root ("flat") or each the child of the one before ("chain").
TreeOf(shape, counts, n, nameLen) ==
    LET total == DirIno(counts, n) + counts[n + 1]
        dirOf(k) == CHOOSE i \in 0..n :
                        /\ DirIno(counts, i) <= k
                        /\ k <= DirIno(counts, i) + counts[i + 1]
        parentOf(i) == IF i = 0 THEN 0
                       ELSE IF shape = "flat" THEN 1 ELSE DirIno(counts, i - 1)
        subdirsOf(i) == IF shape = "flat"
                        THEN IF i = 0 THEN [j \in 1..n |-> DirIno(counts, j)] ELSE <<>>
                        ELSE IF i < n THEN <<DirIno(counts, i + 1)>> ELSE <<>>
    IN [k \in 1..total |->
          LET i == dirOf(k)
          IN IF k = DirIno(counts, i)
             THEN [ino |-> k, name |-> [key |-> 0 - i, len |-> nameLen],
                   fileType |-> DirType, parent |-> parentOf(i),
                   entries |-> [j \in 1..counts[i + 1] |-> k + j] \o subdirsOf(i),
                   size |-> 0, dirOffset |-> 0, dirData |-> <<>>]
             ELSE [ino |-> k, name |-> [key |-> k - DirIno(counts, i), len |-> nameLen],
                   fileType |-> FileType, parent |-> DirIno(counts, i),
                   entries |-> <<>>, size |-> 0, dirOffset |-> 0, dirData |-> <<>>]]

DirInit ==
    /\ \E n \in 0..MaxSubdirs, shape \in {"flat", "chain"}, nameLen \in NameLens :
         \E counts \in [1..(n + 1) -> FileCounts] :
            inodes = TreeOf(shape, counts, n, nameLen)
    /\ inodePos = <<>>
    /\ dirPc = "prepareDirectories"
    /\ loopIndex = 0
    /\ globalDirOffset = 0
    /\ dirBlocks = <<>>
    /\ dirInodes = <<>>
    /\ listDir = 0
    /\ dr = <<>>
    /\ listing = <<>>
    /\ listErr = "nil"
    /\ PathIdle
    /\ SuperIdle
    /\ FileIdle
    /\ LifeIdle
    /\ CacheIdle
    /\ OpenIdle
    /\ TableIdle
    /\ ReaderIdle
    /\ LookupIdle

IsDirInode(i) == i.fileType \in {DirType, XDirType}

\* The entries es, whose names lie between lo and hi, by name: those of the
\* lower half of the names before those of the upper half.
RECURSIVE SortBetween(_, _, _, _)
SortBetween(ws, es, lo, hi) ==
    IF Len(es) <= 1 \/ lo >= hi THEN es
    ELSE LET mid == (lo + hi) \div 2
             low(e) == ws[e].name.key <= mid
             high(e) == ws[e].name.key > mid
         IN SortBetween(ws, SelectSeq(es, low), lo, mid)
            \o SortBetween(ws, SelectSeq(es, high), mid + 1, hi)

\* sortInodes: the entries by name.
SortByName(ws, es) ==
    IF es = <<>> THEN <<>>
    ELSE LET keys == {ws[es[k]].name.key : k \in 1..Len(es)}
             lo == CHOOSE a \in keys : \A b \in keys : a <= b
             hi == CHOOSE a \in keys : \A b \in keys : b <= a
         IN SortBetween(ws, es, lo, hi)

\* prepareDirectories: entries sorted, XDirType above 256 entries.
PrepareDirectories ==
    /\ dirPc = "prepareDirectories"
    /\ inodes' = [k \in DOMAIN inodes |->
                    IF inodes[k].fileType # DirType THEN inodes[k]
                    ELSE [inodes[k] EXCEPT
                            !.entries = SortByName(inodes, @),
                            !.fileType = IF Len(inodes[k].entries) > indexInterval
                                         THEN XDirType ELSE DirType]]
    /\ dirPc' = "computeInodePositions"
    /\ UNCHANGED <<inodePos, loopIndex, globalDirOffset, dirBlocks, dirInodes, listDir,
                   dr, listing, listErr>>
    /\ UNCHANGED notDirVars

\* Bytes of the index entries serializeInode writes: index, start, size, name.
RECURSIVE IndexLen(_)
IndexLen(ix) ==
    IF ix = <<>> THEN 0
    ELSE DirIndexLen + ix[Len(ix)].Name.len + IndexLen(SubSeq(ix, 1, Len(ix) - 1))

\* len(data) of serializeInode(ino)
SerializedLen(i) ==
    IF i.fileType = DirType THEN DirInodeLen
    ELSE IF i.fileType = XDirType THEN XDirInodeLen + IndexLen(i.dirIndex)
    ELSE FileInodeLen

\* One iteration of the loop of computeInodePositions; fill is blockBuf.Len()
\* after the inode is written.
ComputeInodePosition ==
    /\ dirPc = "computeInodePositions"
    /\ loopIndex < Len(inodes)
    /\ LET prev == IF loopIndex = 0 THEN [blockNum |-> 0, offset |-> 0, fill |-> 0]
                   ELSE inodePos[loopIndex]
           n == SerializedLen(inodes[loopIndex + 1])
       IN inodePos' = Append(inodePos,
             IF prev.fill > 0 /\ prev.fill + n > maxMetadataBlockSize
             THEN [blockNum |-> prev.blockNum + 1, offset |-> 0, fill |-> n]
             ELSE [blockNum |-> prev.blockNum, offset |-> prev.fill,
                   fill |-> prev.fill + n])
    /\ loopIndex' = loopIndex + 1
    /\ UNCHANGED <<inodes, dirPc, globalDirOffset, dirBlocks, dirInodes, listDir, dr,
                   listing, listErr>>
    /\ UNCHANGED notDirVars

ComputeInodePositionsDone ==
    /\ dirPc = "computeInodePositions"
    /\ loopIndex >= Len(inodes)
    /\ loopIndex' = 0
    /\ dirPc' = "buildDirectoryData"
    /\ UNCHANGED <<inodes, inodePos, globalDirOffset, dirBlocks, dirInodes, listDir, dr,
                   listing, listErr>>
    /\ UNCHANGED notDirVars

\* The end of the chunk that starts at entry from: the entries are in one
\* inode block and there are at most 256 of them.
ChunkEnd(pos, es, from, to) ==
    LET inChunk(t) == /\ t <= Len(es)
                      /\ t - from < indexInterval
                      /\ pos[es[t]].blockNum = pos[es[from]].blockNum
    IN CHOOSE t \in to..(Len(es) + 1) : ~inChunk(t) /\ \A u \in to..(t - 1) : inChunk(u)

\* A chunk header: count, start (blockPos) and inode number.
DirHeader(at, count, blockPos, first) ==
    [k |-> "hdr", at |-> at, count |-> count, start |-> blockPos, offset |-> 0,
     ino |-> first, delta |-> 0, name |-> <<>>, typ |-> 0, len |-> DirHeaderLen]

\* int16(x)
I16(x) == ((x + 32768) % 65536) - 32768

\* An entry: uint16(offset), int16(entry.ino) - int16(first ino of the chunk),
\* type and name; ino is the inode the entry was written for.
DirEntry(at, w, offset, first) ==
    [k |-> "ent", at |-> at, count |-> 0, start |-> 0, offset |-> U16(offset),
     ino |-> w.ino, delta |-> I16(I16(w.ino) - I16(first)), name |-> w.name,
     typ |-> w.fileType, len |-> DirEntryLen + w.name.len]

BlockPosNil(bp, b) == 0

\* blockPos of a chunk whose first entry is in inode block b: 0 when
\* blockPositions is nil or shorter.
BlockPos(bp, b) == IF b < Len(bp) THEN bp[b + 1] ELSE 0

\* Bytes of the entries es[lo..hi].
RECURSIVE EntriesLen(_, _, _, _)
EntriesLen(ws, es, lo, hi) ==
    IF lo > hi THEN 0
    ELSE IF lo = hi THEN DirEntryLen + ws[es[lo]].name.len
    ELSE LET mid == (lo + hi) \div 2
         IN EntriesLen(ws, es, lo, mid) + EntriesLen(ws, es, mid + 1, hi)

\* buildDirectoryEntryData: the chunks from entry from on; at is dirBuf.Len().
RECURSIVE DirChunks(_, _, _, _, _, _)
DirChunks(ws, pos, bp, es, from, at) ==
    IF from > Len(es) THEN <<>>
    ELSE LET to == ChunkEnd(pos, es, from, from)
         IN <<DirHeader(at, to - from - 1, BlockPos(bp, pos[es[from]].blockNum), es[from])>>
            \o [j \in 1..(to - from) |->
                  DirEntry(at + DirHeaderLen + EntriesLen(ws, es, from, from + j - 2),
                           ws[es[from + j - 1]], pos[es[from + j - 1]].offset, es[from])]
            \o DirChunks(ws, pos, bp, es, to,
                         at + DirHeaderLen + EntriesLen(ws, es, from, to - 1))

\* buildDirectoryEntryData: the directory data of inode i, with the inode
\* positions pos and the block positions bp (<<>> is nil).
buildDirectoryEntryData(ws, pos, bp, i) ==
    IF Len(i.entries) = 0 THEN <<DirHeader(0, 0, 0, i.ino)>>
    ELSE DirChunks(ws, pos, bp, i.entries, 1, 0)

\* len(dirData)
ItemsLen(items) ==
    IF items = <<>> THEN 0 ELSE items[Len(items)].at + items[Len(items)].len

\* One iteration of the loop of buildDirectoryDataForAllInodes.
BuildDirectoryData ==
    /\ dirPc = "buildDirectoryData"
    /\ loopIndex < Len(inodes)
    /\ LET k == loopIndex + 1
           dirData == buildDirectoryEntryData(inodes, inodePos, <<>>, inodes[k])
       IN IF ~IsDirInode(inodes[k])
          THEN UNCHANGED <<inodes, globalDirOffset>>
          ELSE /\ inodes' = [inodes EXCEPT ![k].dirOffset = globalDirOffset,
                                           ![k].dirData = dirData,
                                           ![k].size = ItemsLen(dirData)]
               /\ globalDirOffset' = globalDirOffset + ItemsLen(dirData)
    /\ loopIndex' = loopIndex + 1
    /\ UNCHANGED <<inodePos, dirPc, dirBlocks, dirInodes, listDir, dr, listing, listErr>>
    /\ UNCHANGED notDirVars

BuildDirectoryDataDone ==
    /\ dirPc = "buildDirectoryData"
    /\ loopIndex >= Len(inodes)
    /\ dirPc' = "computeDirectoryTableOffsets"
    /\ UNCHANGED <<inodes, inodePos, loopIndex, globalDirOffset, dirBlocks, dirInodes,
                   listDir, dr, listing, listErr>>
    /\ UNCHANGED notDirVars

\* The directory inodes of w.inodes, in order.
DirectoriesOf(ws) == SelectSeq(ws, IsDirInode)

\* dirBuf of computeDirectoryTableOffsets: the data of the directories ds,
\* each item at its position in the buffer.
RECURSIVE DirStream(_, _)
DirStream(ds, n) ==
    IF n = 0 THEN <<>>
    ELSE LET before == DirStream(ds, n - 1)
             base == ItemsLen(before)
         IN before \o [j \in 1..Len(ds[n].dirData) |->
                          [ds[n].dirData[j] EXCEPT !.at = @ + base]]

DirTableData(ws) == DirStream(DirectoriesOf(ws), Len(DirectoriesOf(ws)))

\* The blocks computeDirectoryTableOffsets cuts len bytes into; stored[k]
\* tells whether block k is stored compressed.
RECURSIVE CutBlocks(_, _, _, _)
CutBlocks(len, k, offset, stored) ==
    IF len <= 0 THEN <<>>
    ELSE LET blkSize == IF len > maxMetadataBlockSize THEN maxMetadataBlockSize ELSE len
             toWrite == 2 + (IF stored[k] THEN (blkSize + 1) \div 2 ELSE blkSize)
         IN <<[offset |-> offset, len |-> blkSize, stored |-> toWrite]>>
            \o CutBlocks(len - blkSize, k + 1, offset + toWrite, stored)

BlockCount(len) == (len + maxMetadataBlockSize - 1) \div maxMetadataBlockSize

\* computeDirectoryTableOffsets, writeDirectoryTable
ComputeDirectoryTableOffsets ==
    /\ dirPc = "computeDirectoryTableOffsets"
    /\ LET len == ItemsLen(DirTableData(inodes))
       IN \E stored \in [1..BlockCount(len) -> BOOLEAN] :
             dirBlocks' = CutBlocks(len, 1, 0, stored)
    /\ dirPc' = "serializeInodes"
    /\ UNCHANGED <<inodes, inodePos, loopIndex, globalDirOffset, dirInodes, listDir, dr,
                   listing, listErr>>
    /\ UNCHANGED notDirVars

\* start_block of a directory inode: uint32(0)
DirStartBlock(i) == 0

\* offset of a directory inode: uint16(ino.dirOffset)
DirBlockOffset(i) == U16(i.dirOffset)

\* serializeInode, cases DirType and XDirType, for every directory.
SerializeDirInodes ==
    /\ dirPc = "serializeInodes"
    /\ dirInodes' = [k \in DOMAIN inodes |->
                       IF ~IsDirInode(inodes[k]) THEN <<>>
                       ELSE [Type |-> inodes[k].fileType,
                             StartBlock |-> DirStartBlock(inodes[k]),
                             Size |-> IF inodes[k].fileType = DirType
                                      THEN U16(inodes[k].size) ELSE inodes[k].size,
                             Offset |-> DirBlockOffset(inodes[k])]]
    /\ dirPc' = "dirReader"
    /\ UNCHANGED <<inodes, inodePos, loopIndex, globalDirOffset, dirBlocks, listDir, dr,
                   listing, listErr>>
    /\ UNCHANGED notDirVars

\* newTableReader(DirTableStart + base, skip) on the directory table: the
\* position in the table's data where reading starts.
newTableReader(blocks, base, skip) ==
    IF \A k \in DOMAIN blocks : blocks[k].offset # base
    THEN [pos |-> 0, err |-> "failed to read initial block"]
    ELSE LET k == CHOOSE j \in DOMAIN blocks : blocks[j].offset = base
         IN IF skip > blocks[k].len
            THEN [pos |-> 0, err |-> "panic: slice bounds out of range"]
            ELSE [pos |-> (k - 1) * maxMetadataBlockSize + skip, err |-> "nil"]

\* Superblock.dirReader(i, nil) for a directory of the image.
OpenDirReader ==
    /\ dirPc = "dirReader"
    /\ \E d \in DOMAIN dirInodes :
         /\ dirInodes[d] # <<>>
         /\ listDir' = d
         /\ LET t == newTableReader(dirBlocks, dirInodes[d].StartBlock, dirInodes[d].Offset)
            IN /\ dr' = [pos |-> t.pos, N |-> dirInodes[d].Size, err |-> t.err]
               /\ IF t.err = "nil"
                  THEN dirPc' = "ReadDir" /\ UNCHANGED listErr
                  ELSE dirPc' = "listed" /\ listErr' = t.err
    /\ UNCHANGED <<inodes, inodePos, loopIndex, globalDirOffset, dirBlocks, dirInodes,
                   listing>>
    /\ UNCHANGED notDirVars

\* The item of the directory table that starts at byte pos, if one does.
ItemAt(items, pos) ==
    IF \E k \in DOMAIN items : items[k].at = pos
    THEN items[CHOOSE k \in DOMAIN items : items[k].at = pos]
    ELSE [k |-> "none"]

\* The loop of ReadDir(0) over nextfull: count entries are left in the chunk.
RECURSIVE ReadDirLoop(_, _, _, _, _)
ReadDirLoop(items, pos, n, count, out) ==
    IF n = 3 \/ n = 0 THEN [res |-> out, err |-> "nil"]
    ELSE LET item == ItemAt(items, pos)
         IN IF item.k = "none" \/ item.k # (IF count = 0 THEN "hdr" ELSE "ent")
            THEN [res |-> out, err |-> "not a directory listing"]
            ELSE IF item.len > n
            THEN [res |-> out, err |-> "io.ErrUnexpectedEOF"]
            ELSE IF count = 0
            THEN IF n = item.len THEN [res |-> out, err |-> "nil"]
                 ELSE LET e == ItemAt(items, pos + item.len)
                      IN IF e.k # "ent"
                         THEN [res |-> out, err |-> "not a directory listing"]
                         ELSE IF e.len > n - item.len
                         THEN [res |-> out, err |-> "io.ErrUnexpectedEOF"]
                         ELSE ReadDirLoop(items, pos + item.len + e.len,
                                          n - item.len - e.len, item.count,
                                          Append(out, [name |-> e.name, typ |-> e.typ]))
            ELSE ReadDirLoop(items, pos + item.len, n - item.len, count - 1,
                             Append(out, [name |-> item.name, typ |-> item.typ]))

\* dirReader.ReadDir(0)
ReadDir ==
    /\ dirPc = "ReadDir"
    /\ LET r == ReadDirLoop(DirTableData(inodes), dr.pos, dr.N, 0, <<>>)
       IN listing' = r.res /\ listErr' = r.err
    /\ dirPc' = "listed"
    /\ UNCHANGED <<inodes, inodePos, loopIndex, globalDirOffset, dirBlocks, dirInodes,
                   listDir, dr>>
    /\ UNCHANGED notDirVars

DirNext ==
    \/ PrepareDirectories \/ ComputeInodePosition \/ ComputeInodePositionsDone
    \/ BuildDirectoryData \/ BuildDirectoryDataDone
    \/ ComputeDirectoryTableOffsets \/ SerializeDirInodes \/ OpenDirReader \/ ReadDir

SpecDir == DirInit /\ [][DirNext]_vars

-----------------------------------------------------------------------------
(* Properties of the directory table *)

\* The children added to directory d, by name.
Children(d) ==
    [j \in 1..Len(inodes[d].entries) |->
        [name |-> inodes[inodes[d].entries[j]].name,
         typ |-> inodes[inodes[d].entries[j]].fileType]]

\* C2: every directory of the re-opened image can be listed, and its listing
\* holds each added child exactly once, with its name and type, and nothing
\* else, whatever the depth, the number of directories and the amount of
\* directory data.
C2_EveryDirectoryListed ==
    dirPc = "listed" => listErr = "nil" /\ listing = Children(listDir)

\* C2: the statement holds for every directory whose data starts in the first
\* metadata block of the directory table.
C2_HoldsInFirstBlock ==
    (dirPc = "listed" /\ inodes[listDir].dirOffset < maxMetadataBlockSize)
    => listErr = "nil" /\ listing = Children(listDir)

\* The directory inodes have been serialized.
DirInodesWritten == dirPc \in {"dirReader", "ReadDir", "listed"}

\* The metadata block of the directory table that holds byte at of the
\* directory data.
BlockOf(at) == dirBlocks[at \div maxMetadataBlockSize + 1]

\* C20: the start_block of every directory inode written is the offset, from
\* the start of the directory table, of the metadata block in which the
\* directory's data begins, and its offset is the position of the data's
\* first byte in that block, below 8192; a reader opened there stands at
\* the directory's first header.
C20_DirInodeAddressesItsData ==
    DirInodesWritten =>
        \A d \in DOMAIN inodes :
            IsDirInode(inodes[d]) =>
                /\ dirInodes[d].StartBlock = BlockOf(inodes[d].dirOffset).offset
                /\ dirInodes[d].Offset = inodes[d].dirOffset % maxMetadataBlockSize
                /\ dirInodes[d].Offset < maxMetadataBlockSize
                /\ newTableReader(dirBlocks, dirInodes[d].StartBlock, dirInodes[d].Offset)
                     = [pos |-> inodes[d].dirOffset, err |-> "nil"]

-----------------------------------------------------------------------------
(* The life of a Writer (writer.go NewWriter, Add, Finalize).  Two Writers  *)
(* are made with the same options at times of their own and are given the   *)
(* same calls.  What a Writer writes is a sequence of segments: a kind, a   *)
(* length in bytes and the values its bytes encode.                         *)

\* Bound: the number of Add and Finalize calls made on a Writer.
MaxCalls == 3

\* 0xFFFFFFFFFFFFFFFF as uint64
NoTable == -1

SinkError == "sink error"

Seg(kind, len, content) == [kind |-> kind, len |-> len, content |-> content]

RECURSIVE SegsLen(_)
SegsLen(segs) == IF segs = <<>> THEN 0 ELSE segs[1].len + SegsLen(Tail(segs))

\* The wall-clock times the Writers are created at and the WithModTime option.
Clocks == {<<100, 100>>, <<100, 200>>}
ModTimeOptions == {<<>>, <<150>>}

\* getParentPath
getParentPath(p) ==
    IF p = <<>> \/ p = <<".">> THEN <<>>
    ELSE IF \A i \in 1..Len(p) : p[i] # "/" THEN <<".">>
    ELSE LET i == CHOOSE j \in 1..Len(p) :
                     p[j] = "/" /\ \A k \in (j + 1)..Len(p) : p[k] # "/"
         IN IF i = 1 THEN <<".">> ELSE SubSeq(p, 1, i - 1)

\* The arguments of the Add calls: path, the d.Info() of the entry (name as
\* sort key and length, mode, size, modification time), the source filesystem
\* in force (none, one that holds the file, one that fails to read it), the
\* error d.Info() returns and the err argument.  A file the source
\* filesystem holds has the length info.Size() reports when Finalize reads it.
AddArg(p, key, mode, size, mtime, src, infoErr, e) ==
    [path |-> p, name |-> [key |-> key, len |-> 1], mode |-> mode, size |-> size,
     modTime |-> mtime, src |-> src, srcLen |-> IF src = "ok" THEN size ELSE 0,
     infoErr |-> infoErr, err |-> e]

\* A file that has grown past a block between Add and Finalize.
GrownFile ==
    [AddArg(<<"e">>, 5, "regular", 10, 100, "ok", "nil", "nil")
        EXCEPT !.srcLen = DefaultBlockSize + 1]

AddInputs ==
    { AddArg(<<".">>, 0, "dir", 0, 100, "nil", "nil", "nil"),
      AddArg(<<"a">>, 1, "dir", 0, 100, "nil", "nil", "nil"),
      AddArg(<<"b">>, 2, "regular", 10, 200, "ok", "nil", "nil"),
      AddArg(<<"a", "/", "c">>, 3, "regular", 10, 100, "unreadable", "nil", "nil"),
      AddArg(<<"b">>, 2, "regular", 10, 100, "ok", "stat error", "nil"),
      AddArg(<<"a">>, 1, "dir", 0, 100, "nil", "nil", "walk error"),
      AddArg(<<"d">>, 4, "regular", 10, 100, "nil", "nil", "nil"),
      GrownFile }

MapPaths == {<<>>, <<".">>} \cup {a.path : a \in AddInputs}

\* The WithBlockSize option: not given, a power of two, another size.
BlockSizeOptions == {<<>>, <<65536>>, <<100000>>}

\* NewWriter; wa tells whether the sink implements io.WriterAt, opt holds the
\* time of the WithModTime option and bs the size of the WithBlockSize option
\* when the option is given.
NewWriter(now, wa, opt, bs) ==
    [wa |-> wa,
     buf |-> IF wa THEN <<>> ELSE <<Seg("zero", SuperblockSize, <<>>)>>,
     offset |-> SuperblockSize,
     blockSize |-> IF bs = <<>> THEN DefaultBlockSize ELSE bs[1],
     modTime |-> IF opt = <<>> THEN now ELSE opt[1],
     idList |-> <<>>,
     inodes |-> <<[path |-> <<>>, name |-> [key |-> 0, len |-> 0], ino |-> 1,
                   fileType |-> DirType, modTime |-> now, size |-> 0, src |-> "nil",
                   srcLen |-> 0, parent |-> 0, entries |-> <<>>, startBlock |-> 0,
                   dataBlocks |-> <<>>, dirOffset |-> 0, dirData |-> <<>>]>>,
     inodeMap |-> [p \in MapPaths |-> 0],
     inodeCount |-> 1,
     precompressedDirBlocks |-> <<>>,
     dirTableStart |-> 0, inodeTableStart |-> 0, idTableStart |-> 0,
     fragTableStart |-> 0, exportTableStart |-> 0, bytesUsed |-> 0,
     sb |-> <<>>]

\* Writer.Add
Add(w, a) ==
    IF a.err # "nil" THEN [w |-> w, err |-> a.err]
    ELSE IF a.path = <<".">> \/ a.path = <<>>
    THEN [w |-> [w EXCEPT !.inodeMap[<<".">>] = 1, !.inodeMap[<<>>] = 1], err |-> "nil"]
    ELSE IF a.infoErr # "nil" THEN [w |-> w, err |-> a.infoErr]
    ELSE LET n == w.inodeCount + 1
             inode == [path |-> a.path, name |-> a.name, ino |-> n,
                       fileType |-> IF a.mode = "dir" THEN DirType ELSE FileType,
                       modTime |-> a.modTime, size |-> a.size, src |-> a.src,
                       srcLen |-> a.srcLen, parent |-> 0, entries |-> <<>>, startBlock |-> 0,
                       dataBlocks |-> <<>>, dirOffset |-> 0, dirData |-> <<>>]
             up == w.inodeMap[getParentPath(a.path)]
             w1 == [w EXCEPT !.inodeCount = n, !.inodes = Append(@, inode),
                             !.inodeMap[a.path] = n]
         IN IF up = 0 THEN [w |-> w1, err |-> "parent directory not found"]
            ELSE [w |-> [w1 EXCEPT !.inodes[n].parent = up,
                                   !.inodes[up].entries = Append(@, n)],
                  err |-> "nil"]

\* One call of the sink.  left counts the sink calls down to the one that
\* fails (0: none fails).
SinkCall(st, method, at, segs) ==
    [st EXCEPT !.sink = Append(@, [method |-> method, at |-> at, segs |-> segs,
                                   ok |-> st.left # 1]),
               !.left = IF @ > 0 THEN @ - 1 ELSE 0,
               !.err = IF st.left = 1 THEN SinkError ELSE "nil"]

\* Writer.write, in a Finalize that has not returned yet.
write(st, seg) ==
    IF st.err # "nil" THEN st
    ELSE IF st.w.wa
    THEN LET t == SinkCall(st, "WriteAt", st.w.offset, <<seg>>)
         IN IF t.err # "nil" THEN t ELSE [t EXCEPT !.w.offset = @ + seg.len]
    ELSE [st EXCEPT !.w.buf = Append(@, seg), !.w.offset = @ + seg.len]

\* len(compressed) for len(data) = n, when the data compresses.
CompressedLen(n) == (n + 1) \div 2

\* buildIDTable: every inode of the model has uid 0 and gid 0.
buildIDTable(st) ==
    IF st.err # "nil" THEN st ELSE [st EXCEPT !.w.idList = <<0>>]

\* The block loop of writeFileData for w.inodes[k], from offset at on; len
\* is len(data) of the file read from the source filesystem.
RECURSIVE writeFileBlocks(_, _, _, _, _)
writeFileBlocks(st, k, len, at, compresses) ==
    IF st.err # "nil" \/ at >= len THEN st
    ELSE LET end == Min(at + st.w.blockSize, len)
             stored == IF compresses THEN CompressedLen(end - at) ELSE end - at
             word == IF compresses THEN stored ELSE BitOr(stored, UncompressedFlag)
             u == write(st, Seg("data", stored, <<st.w.inodes[k].path, at, compresses>>))
         IN IF u.err # "nil" THEN u
            ELSE writeFileBlocks([u EXCEPT !.w.inodes[k].dataBlocks = Append(@, word)],
                                 k, len, at + st.w.blockSize, compresses)

\* writeFileData: the files from w.inodes[k] on.
RECURSIVE writeFileData(_, _, _)
writeFileData(st, k, compresses) ==
    IF st.err # "nil" \/ k > Len(st.w.inodes) THEN st
    ELSE LET i == st.w.inodes[k]
         IN IF i.fileType # FileType \/ i.size = 0 \/ i.src = "nil"
            THEN writeFileData(st, k + 1, compresses)
            ELSE IF i.src = "unreadable" THEN [st EXCEPT !.err = "failed to read"]
            ELSE LET t == [st EXCEPT !.w.inodes[k].startBlock = st.w.offset,
                                     !.w.inodes[k].dataBlocks = <<>>]
                     u == writeFileBlocks(t, k, i.srcLen, 0, compresses)
                 IN IF u.err # "nil" THEN u
                    ELSE writeFileData(u, k + 1, compresses)

\* prepareDirectories
prepareDirectories(ws) ==
    [k \in DOMAIN ws |->
        IF ws[k].fileType # DirType THEN ws[k]
        ELSE [ws[k] EXCEPT !.entries = SortByName(ws, @),
                           !.fileType = IF Len(ws[k].entries) > indexInterval
                                        THEN XDirType ELSE DirType]]

\* len(data) of serializeInode(ino), with the block list of a file
InodeLen(i) == SerializedLen(i) + 4 * Len(i.dataBlocks)

\* computeInodePositions, for the first k inodes
RECURSIVE computeInodePositions(_, _)
computeInodePositions(ws, k) ==
    IF k = 0 THEN <<>>
    ELSE LET before == computeInodePositions(ws, k - 1)
             prev == IF k = 1 THEN [blockNum |-> 0, offset |-> 0, fill |-> 0]
                     ELSE before[k - 1]
             n == InodeLen(ws[k])
         IN Append(before,
               IF prev.fill > 0 /\ prev.fill + n > maxMetadataBlockSize
               THEN [blockNum |-> prev.blockNum + 1, offset |-> 0, fill |-> n]
               ELSE [blockNum |-> prev.blockNum, offset |-> prev.fill,
                     fill |-> prev.fill + n])

\* buildDirectoryDataForAllInodes, for the first k inodes
RECURSIVE buildDirectoryDataForAllInodes(_, _, _)
buildDirectoryDataForAllInodes(ws, pos, k) ==
    IF k = 0 THEN [ws |-> ws, globalDirOffset |-> 0]
    ELSE LET b == buildDirectoryDataForAllInodes(ws, pos, k - 1)
             dirBytes == buildDirectoryEntryData(b.ws, pos, <<0>>, b.ws[k])
         IN IF ~IsDirInode(b.ws[k]) THEN b
            ELSE [ws |-> [b.ws EXCEPT ![k].dirOffset = b.globalDirOffset,
                                      ![k].dirData = dirBytes,
                                      ![k].size = ItemsLen(dirBytes)],
                  globalDirOffset |-> b.globalDirOffset + ItemsLen(dirBytes)]

\* serializeInode: the fields the bytes of the inode encode
serializeInode(i) ==
    [Type |-> i.fileType, ModTime |-> i.modTime, Ino |-> i.ino,
     StartBlock |-> IF IsDirInode(i) THEN DirStartBlock(i) ELSE i.startBlock,
     Size |-> IF i.fileType = DirType THEN U16(i.size) ELSE i.size,
     Offset |-> IF IsDirInode(i) THEN DirBlockOffset(i) ELSE 0,
     Blocks |-> i.dataBlocks]

\* buildInodeTableToBuffer: the directory data, w.precompressedDirBlocks and
\* the inode table, whose inodes fill less than one metadata block.
buildInodeTableToBuffer(st, compresses) ==
    IF st.err # "nil" THEN [st |-> st, inodeTableData |-> <<>>]
    ELSE LET ws == st.w.inodes
             pos == computeInodePositions(ws, Len(ws))
             built == buildDirectoryDataForAllInodes(ws, pos, Len(ws)).ws
             dirLen == ItemsLen(DirTableData(built))
             blocks == CutBlocks(dirLen, 1, 0, [k \in 1..BlockCount(dirLen) |-> compresses])
             rawLen == pos[Len(ws)].fill
         IN [st |-> [st EXCEPT !.w.inodes = built,
                               !.w.precompressedDirBlocks =
                                   [k \in DOMAIN blocks |->
                                       Seg("dir", blocks[k].stored,
                                           <<DirTableData(built), k, compresses>>)]],
             inodeTableData |->
                 Seg("inodes",
                     2 + (IF compresses THEN CompressedLen(rawLen) ELSE rawLen),
                     <<[k \in DOMAIN built |-> serializeInode(built[k])], compresses>>)]

\* writeDirectoryTable, from block k on
RECURSIVE writeDirBlocks(_, _)
writeDirBlocks(st, k) ==
    IF st.err # "nil" \/ k > Len(st.w.precompressedDirBlocks) THEN st
    ELSE writeDirBlocks(write(st, st.w.precompressedDirBlocks[k]), k + 1)

\* writeDirectoryTable recording w.dirTableStart after the blocks are written
writeDirectoryTableLate(st) ==
    IF st.err # "nil" THEN st
    ELSE LET t == writeDirBlocks(st, 1)
         IN [t EXCEPT !.w.dirTableStart = t.w.offset]

writeDirectoryTable(st) ==
    IF st.err # "nil" THEN st
    ELSE writeDirBlocks([st EXCEPT !.w.dirTableStart = st.w.offset], 1)

\* Finalize: w.inodeTableStart = w.offset; w.write(inodeTableData)
writeInodeTable(st, inodeTableData) ==
    IF st.err # "nil" THEN st
    ELSE write([st EXCEPT !.w.inodeTableStart = st.w.offset], inodeTableData)

\* writeIDTable, writeMetadataBlock
writeIDTable(st, compresses) ==
    IF st.err # "nil" THEN st
    ELSE LET n == 4 * Len(st.w.idList)
             t == write(write(st, Seg("header", 2, <<n, compresses>>)),
                        Seg("ids", IF compresses THEN CompressedLen(n) ELSE n,
                            <<st.w.idList, compresses>>))
         IN IF t.err # "nil" THEN t
            ELSE write([t EXCEPT !.w.idTableStart = t.w.offset],
                       Seg("pointer", 8, <<st.w.offset>>))

\* blockLog of buildSuperblock: the i below 32 with 1 << i == w.blockSize,
\* 0 when there is none.  The block sizes of the model are below 1 << 31.
BlockLogOf(size) ==
    IF \E i \in 0..30 : 2 ^ i = size
    THEN CHOOSE i \in 0..30 : 2 ^ i = size
    ELSE 0

\* buildSuperblock
buildSuperblock(w) ==
    [w EXCEPT !.sb = [Magic |-> SquashfsMagic, InodeCnt |-> w.inodeCount,
                      ModTime |-> w.modTime, BlockSize |-> w.blockSize,
                      BlockLog |-> BlockLogOf(w.blockSize),
                      VMajor |-> 4, VMinor |-> 0, RootInode |-> 0,
                      BytesUsed |-> w.bytesUsed, IdTableStart |-> w.idTableStart,
                      XattrIdTableStart |-> NoTable,
                      InodeTableStart |-> w.inodeTableStart,
                      DirTableStart |-> w.dirTableStart,
                      FragTableStart |-> w.fragTableStart,
                      ExportTableStart |-> w.exportTableStart]]

\* Superblock.Bytes: the 96 bytes that encode the fields
SuperblockBytes(s) == Seg("superblock", SuperblockSize, s)

\* The buffer left as it is, the placeholder at its head
CopySuperblockSkipped(segs, sbData) == segs

\* copy(data[0:SuperblockSize], sbData) on the buffer
CopySuperblock(segs, sbData) ==
    <<sbData>> \o Tail(segs)

\* The end of Finalize: the superblock and the write to the sink; failLast
\* tells whether that call of the sink fails.
writeSuperblock(st, failLast) ==
    IF st.err # "nil" THEN st
    ELSE LET w1 == buildSuperblock([st.w EXCEPT !.fragTableStart = NoTable,
                                                !.exportTableStart = NoTable,
                                                !.bytesUsed = st.w.offset])
             t == [st EXCEPT !.w = w1, !.left = IF failLast THEN 1 ELSE @]
             sbData == SuperblockBytes(w1.sb)
         IN IF w1.wa THEN SinkCall(t, "WriteAt", 0, <<sbData>>)
            ELSE SinkCall(t, "Write", 0, CopySuperblock(w1.buf, sbData))

\* The sink call of a Finalize that fails: none, the first, the third, the last.
FailPoints == {"none", "first", "third", "last"}

\* Writer.Finalize
Finalize(w, sink, compresses, fail) ==
    LET st0 == [w |-> w, sink |-> sink, err |-> "nil",
                left |-> CASE fail = "first" -> 1 [] fail = "third" -> 3 [] OTHER -> 0]
        st1 == write(st0, Seg("zero", SuperblockSize, <<>>))
        st2 == buildIDTable(st1)
        st3 == writeFileData(st2, 1, compresses)
        st4 == IF st3.err # "nil" THEN st3
               ELSE [st3 EXCEPT !.w.inodes = prepareDirectories(@)]
        b == buildInodeTableToBuffer(st4, compresses)
        st5 == writeDirectoryTable(b.st)
        st6 == writeInodeTable(st5, b.inodeTableData)
        st7 == writeIDTable(st6, compresses)
    IN writeSuperblock(st7, fail = "last")

LifeInit ==
    /\ clocks \in Clocks
    /\ \E wa \in BOOLEAN, opt \in ModTimeOptions, bs \in BlockSizeOptions :
          writers = [k \in 1..2 |-> NewWriter(clocks[k], wa, opt, bs)]
    /\ sinks = [k \in 1..2 |-> <<>>]
    /\ lastCall = [method |-> "NewWriter", err |-> "nil", made |-> 0]
    /\ finalizeCalls = 0
    /\ calls = 0
    /\ PathIdle
    /\ SuperIdle
    /\ FileIdle
    /\ DirIdle
    /\ CacheIdle
    /\ OpenIdle
    /\ TableIdle
    /\ ReaderIdle
    /\ LookupIdle

\* A call of Add, made on both Writers.
AddCall ==
    /\ calls < MaxCalls
    /\ \E a \in AddInputs :
          LET r == [k \in 1..2 |-> Add(writers[k], a)]
          IN /\ writers' = [k \in 1..2 |-> r[k].w]
             /\ lastCall' = [method |-> "Add", err |-> r[1].err, made |-> 0]
    /\ calls' = calls + 1
    /\ UNCHANGED <<sinks, clocks, finalizeCalls>>
    /\ UNCHANGED notLifeVars

\* A call of Finalize, made on both Writers.
FinalizeCall ==
    /\ calls < MaxCalls
    /\ \E compresses \in BOOLEAN, fail \in FailPoints :
          LET r == [k \in 1..2 |-> Finalize(writers[k], sinks[k], compresses, fail)]
          IN /\ writers' = [k \in 1..2 |-> r[k].w]
             /\ sinks' = [k \in 1..2 |-> r[k].sink]
             /\ lastCall' = [method |-> "Finalize", err |-> r[1].err,
                             made |-> Len(r[1].sink) - Len(sinks[1])]
    /\ calls' = calls + 1
    /\ finalizeCalls' = finalizeCalls + 1
    /\ UNCHANGED clocks
    /\ UNCHANGED notLifeVars

LifeNext == AddCall \/ FinalizeCall

SpecWriter == LifeInit /\ [][LifeNext]_vars

-----------------------------------------------------------------------------
(* Properties of the life of a Writer *)

FinalizeSucceeded == lastCall.method = "Finalize" /\ lastCall.err = "nil"

LastSinkCall(k) == sinks[k][Len(sinks[k])]

\* The superblock of the image the last Finalize emitted.
EmittedSuperblock(k) == LastSinkCall(k).segs[1].content

\* The number of bytes of the image the sink holds: the extent of the
\* positioned writes that did not fail, or the length of the one Write.
EmittedLen(k) ==
    IF writers[k].wa
    THEN LET ends == {sinks[k][j].at + SegsLen(sinks[k][j].segs) :
                         j \in {c \in DOMAIN sinks[k] : sinks[k][c].ok}}
         IN CHOOSE e \in ends : \A f \in ends : f <= e
    ELSE SegsLen(LastSinkCall(k).segs)

\* C11: once Finalize has returned without error, the Writer is closed: the
\* next Finalize or Add call returns an error, writes nothing more to the
\* sink and leaves the tree as it was.
C11_FinalizeCloses ==
    [][(FinalizeSucceeded /\ calls' = calls + 1)
       => /\ lastCall'.err # "nil"
          /\ sinks' = sinks
          /\ \A k \in 1..2 : writers'[k].inodes = writers[k].inodes]_vars

\* C12: a sink without positioned writes receives nothing before Finalize; a
\* Finalize that succeeds issues exactly one Write, whose first 96 bytes are
\* the final superblock, and a Finalize that fails issues none.
C12_OneWriteOrNone ==
    \A k \in 1..2 :
        ~writers[k].wa =>
            /\ finalizeCalls = 0 => sinks[k] = <<>>
            /\ lastCall.method = "Finalize" =>
                  IF lastCall.err = "nil"
                  THEN /\ lastCall.made = 1
                       /\ LastSinkCall(k).method = "Write"
                       /\ LastSinkCall(k).segs[1] = SuperblockBytes(writers[k].sb)
                  ELSE lastCall.made = 0

\* C12, amended: a sink without positioned writes receives nothing before
\* Finalize; a Finalize that succeeds issues exactly one Write, whose first 96
\* bytes are the final superblock; a Finalize that fails has issued none,
\* unless its error is the error of that one Write.
C12_OneWriteUnlessItFails ==
    \A k \in 1..2 :
        ~writers[k].wa =>
            /\ finalizeCalls = 0 => sinks[k] = <<>>
            /\ lastCall.method = "Finalize" =>
                  IF lastCall.err = "nil"
                  THEN /\ lastCall.made = 1
                       /\ LastSinkCall(k).method = "Write"
                       /\ LastSinkCall(k).ok
                       /\ LastSinkCall(k).segs[1] = SuperblockBytes(writers[k].sb)
                  ELSE IF lastCall.err = SinkError
                  THEN lastCall.made = 1 /\ ~LastSinkCall(k).ok
                  ELSE lastCall.made = 0

\* C12: the first Finalize on a sink without positioned writes has flushed
\* a tree that holds a file with data.
C12_Witness ==
    /\ ~writers[1].wa
    /\ FinalizeSucceeded
    /\ finalizeCalls = 1
    /\ \E j \in DOMAIN writers[1].inodes : writers[1].inodes[j].dataBlocks # <<>>

\* C13: in every image a Writer emits, bytes_used is the number of bytes
\* emitted, 96 <= directory_table_start < inode_table_start < id_table_start
\* < bytes_used, and the fragment, export and xattr table offsets are
\* 0xFFFFFFFFFFFFFFFF.
C13_TableOffsets ==
    FinalizeSucceeded =>
        \A k \in 1..2 :
            LET s == EmittedSuperblock(k)
            IN /\ s.BytesUsed = EmittedLen(k)
               /\ SuperblockSize <= s.DirTableStart
               /\ s.DirTableStart < s.InodeTableStart
               /\ s.InodeTableStart < s.IdTableStart
               /\ s.IdTableStart < s.BytesUsed
               /\ s.FragTableStart = NoTable
               /\ s.ExportTableStart = NoTable
               /\ s.XattrIdTableStart = NoTable

\* C13: a Writer has emitted the image of a tree with file data, through
\* positioned writes.
C13_Witness ==
    /\ FinalizeSucceeded
    /\ writers[1].wa
    /\ \E j \in DOMAIN writers[1].inodes : writers[1].inodes[j].dataBlocks # <<>>

\* The inode tables a Writer has emitted: the inodes each one encodes.
EmittedInodeTables(k) ==
    UNION {{sinks[k][j].segs[m].content[1] :
               m \in {n \in DOMAIN sinks[k][j].segs :
                         sinks[k][j].segs[n].kind = "inodes"}} :
           j \in DOMAIN sinks[k]}

\* The block size of the Writers.
EmittedBlockSize(k) == writers[k].blockSize

\* C24: every regular-file inode a Writer emits carries as many block size
\* entries as its file_size takes blocks: the ceiling of file_size over the
\* block size.  This covers a file added while no source filesystem was set
\* and a file whose source is not as long as Add was told.
C24_BlockListMatchesSize ==
    \A k \in 1..2 :
        \A t \in EmittedInodeTables(k) :
            \A n \in DOMAIN t :
                t[n].Type = FileType =>
                    Len(t[n].Blocks) =
                        (t[n].Size + EmittedBlockSize(k) - 1) \div EmittedBlockSize(k)

\* The header of the image a Writer emitted, as New finds it on disk.
EmittedHeader(k) ==
    LET e == EmittedSuperblock(k)
    IN Header(<<"h", "s", "q", "s">>, "LittleEndian",
              <<e.BlockSize \div 65536, e.BlockSize % 65536>>, e.BlockLog,
              e.VMajor, e.VMinor)

\* C27: whatever block size the Writer was made with, the superblock of the
\* image it emits has 1 << block_log = block_size, and New accepts its header.
C27_EmittedBlockLog ==
    FinalizeSucceeded =>
        \A k \in 1..2 :
            /\ 2 ^ EmittedSuperblock(k).BlockLog = EmittedSuperblock(k).BlockSize
            /\ UnmarshalBinary(EmittedHeader(k), SuperblockSize).err = "nil"

\* C27: the same for the Writers whose block size is a power of two, the
\* default among them.
C27_HoldsForPowersOfTwo ==
    (FinalizeSucceeded /\ \E i \in 0..30 : 2 ^ i = writers[1].blockSize) =>
        \A k \in 1..2 :
            /\ 2 ^ EmittedSuperblock(k).BlockLog = EmittedSuperblock(k).BlockSize
            /\ UnmarshalBinary(EmittedHeader(k), SuperblockSize).err = "nil"

\* The WithModTime option was given: the Writers do not date the image by
\* their clocks.
ModTimeOptionGiven == \A k \in 1..2 : writers[k].modTime \notin {clocks[1], clocks[2]}

\* C14: two Writers with the same options, WithModTime among them, and the
\* same calls emit the same bytes, whatever the times they were created at.
C14_SameInputsSameImage ==
    (FinalizeSucceeded /\ ModTimeOptionGiven) => sinks[1] = sinks[2]

\* C14: the images are the same when the Writers were created in the same
\* second.
C14_HoldsInSameSecond ==
    (FinalizeSucceeded /\ clocks[1] = clocks[2]) => sinks[1] = sinks[2]

-----------------------------------------------------------------------------
(* The inode-reference cache under concurrent calls (super.go                *)
(* getInodeRefCache, setInodeRefCache; inode.go GetInode, lookupRelativeInode; *)
(* dir.go direntry.Info).  A goroutine is inside a map access from the step    *)
(* that takes the lock to the step that releases it.                           *)

\* Bound: the number of calls each goroutine makes.
MaxOps == 2

Goroutines == 1..2

\* The inodes of the image by the number they carry, and their references.
ImageInos == 1..3
RefOf(n) == 32 * n
NoRef == 0

\* GetInodeRef(inoR).Ino: the number the inode at a reference carries.
InoAt(r) == r \div 32

ErrInodeNotExported == "ErrInodeNotExported"

\* The arguments of GetInode: 0..5 and 2^32 + 2, as <<high word, low word>>.
GetInodeArgs == {<<0, n>> : n \in 0..5} \cup {<<1, 2>>}

\* uint32(ino)
Low32(n) == n[2]

\* newTableReader(ExportTableStart, int(8*(ino-1))) and binary.Read of one
\* reference, on an export table of one metadata block.
ExportLookup(n) ==
    LET len == 8 * Cardinality(ImageInos)
    IN IF n[1] # 0 \/ n[2] = 0 \/ 8 * (n[2] - 1) > len
       THEN [inoR |-> NoRef, err |-> "panic: slice bounds out of range"]
       ELSE IF 8 * (n[2] - 1) = len THEN [inoR |-> NoRef, err |-> ErrEOF]
       ELSE [inoR |-> RefOf(n[2]), err |-> "nil"]

\* The calls a goroutine makes: GetInode(ino), a lookup that finds the inode
\* numbered ino in a directory, Info() of the directory entry of that inode.
CacheCalls ==
    {[call |-> "GetInode", arg |-> n] : n \in GetInodeArgs}
    \cup {[call |-> c, arg |-> <<0, n>>] : c \in {"lookup", "Info"}, n \in {2, 3}}

NoLocals == [call |-> "none", arg |-> <<0, 0>>, key |-> 0, inoR |-> NoRef, ok |-> FALSE,
             err |-> "nil"]

CacheInit ==
    /\ exported \in [hasTable : BOOLEAN, rootInoN : {1, 2}]
    /\ inoIdx = [n \in 0..5 |-> NoRef]
    /\ inoIdxL = [readers |-> {}, writer |-> 0]
    /\ threads = [t \in Goroutines |-> [pc |-> "idle", left |-> MaxOps, loc |-> NoLocals]]
    /\ PathIdle
    /\ SuperIdle
    /\ FileIdle
    /\ DirIdle
    /\ LifeIdle
    /\ OpenIdle
    /\ TableIdle
    /\ ReaderIdle
    /\ LookupIdle

Goto(t, pc2, loc2) == threads' = [threads EXCEPT ![t].pc = pc2, ![t].loc = loc2]

\* Where a call goes to put (key, inoR) into the cache: setInodeRefCache, which
\* starts by taking the write lock.
CacheInsertUnlocked(site) == "set:write"

CacheInsert(site) == "set:Lock"

\* A goroutine starts a call.  GetInode returns the root for 1 and swaps the
\* root's number for 1; a lookup and Info load the inode from its reference
\* and cache it under the number it carries.
StartCall(t) ==
    /\ threads[t].pc = "idle"
    /\ threads[t].left > 0
    /\ \E c \in CacheCalls :
          LET l == [NoLocals EXCEPT !.call = c.call, !.arg = c.arg]
          IN IF c.call = "GetInode"
             THEN IF c.arg = <<0, 1>>
                  THEN threads' = [threads EXCEPT ![t].left = @ - 1, ![t].loc = l]
                  ELSE threads' = [threads EXCEPT
                          ![t].left = @ - 1,
                          ![t].pc = "get:RLock",
                          ![t].loc = [l EXCEPT !.arg = IF c.arg = <<0, exported.rootInoN>>
                                                       THEN <<0, 1>> ELSE c.arg,
                                               !.key = IF c.arg = <<0, exported.rootInoN>>
                                                       THEN 1 ELSE Low32(c.arg)]]
             ELSE threads' = [threads EXCEPT
                     ![t].left = @ - 1,
                     ![t].pc = CacheInsert(c.call),
                     ![t].loc = [l EXCEPT !.inoR = RefOf(c.arg[2]),
                                          !.key = InoAt(RefOf(c.arg[2]))]]
    /\ UNCHANGED <<exported, inoIdx, inoIdxL>>
    /\ UNCHANGED notCacheVars

\* getInodeRefCache: sb.inoIdxL.RLock()
GetRLock(t) ==
    /\ threads[t].pc = "get:RLock"
    /\ inoIdxL.writer = 0
    /\ inoIdxL' = [inoIdxL EXCEPT !.readers = @ \cup {t}]
    /\ Goto(t, "get:read", threads[t].loc)
    /\ UNCHANGED <<exported, inoIdx>>
    /\ UNCHANGED notCacheVars

\* getInodeRefCache: res, ok := sb.inoIdx[ino]
GetRead(t) ==
    /\ threads[t].pc = "get:read"
    /\ Goto(t, "get:RUnlock",
            [threads[t].loc EXCEPT !.inoR = inoIdx[threads[t].loc.key],
                                   !.ok = inoIdx[threads[t].loc.key] # NoRef])
    /\ UNCHANGED <<exported, inoIdx, inoIdxL>>
    /\ UNCHANGED notCacheVars

\* getInodeRefCache: the deferred sb.inoIdxL.RUnlock(); GetInode goes on with
\* the cached reference or with the export table.
GetRUnlock(t) ==
    /\ threads[t].pc = "get:RUnlock"
    /\ inoIdxL' = [inoIdxL EXCEPT !.readers = @ \ {t}]
    /\ LET l == threads[t].loc
       IN IF l.ok THEN Goto(t, "idle", l)
          ELSE IF ~exported.hasTable
          THEN Goto(t, "idle", [l EXCEPT !.err = ErrInodeNotExported])
          ELSE LET e == ExportLookup(l.arg)
               IN IF e.err # "nil" THEN Goto(t, "idle", [l EXCEPT !.err = e.err])
                  ELSE Goto(t, CacheInsert("GetInode"), [l EXCEPT !.inoR = e.inoR])
    /\ UNCHANGED <<exported, inoIdx>>
    /\ UNCHANGED notCacheVars

\* setInodeRefCache: sb.inoIdxL.Lock()
SetLock(t) ==
    /\ threads[t].pc = "set:Lock"
    /\ inoIdxL.writer = 0
    /\ inoIdxL.readers = {}
    /\ inoIdxL' = [inoIdxL EXCEPT !.writer = t]
    /\ Goto(t, "set:write", threads[t].loc)
    /\ UNCHANGED <<exported, inoIdx>>
    /\ UNCHANGED notCacheVars

\* setInodeRefCache: sb.inoIdx[ino] = inoR
SetWrite(t) ==
    /\ threads[t].pc = "set:write"
    /\ inoIdx' = [inoIdx EXCEPT ![threads[t].loc.key] = threads[t].loc.inoR]
    /\ Goto(t, "set:Unlock", threads[t].loc)
    /\ UNCHANGED <<exported, inoIdxL>>
    /\ UNCHANGED notCacheVars

\* setInodeRefCache: the deferred sb.inoIdxL.Unlock(); the call returns.
SetUnlock(t) ==
    /\ threads[t].pc = "set:Unlock"
    /\ inoIdxL' = [inoIdxL EXCEPT !.writer = IF @ = t THEN 0 ELSE @]
    /\ Goto(t, "idle", threads[t].loc)
    /\ UNCHANGED <<exported, inoIdx>>
    /\ UNCHANGED notCacheVars

CacheNext ==
    \E t \in Goroutines :
        \/ StartCall(t) \/ GetRLock(t) \/ GetRead(t) \/ GetRUnlock(t)
        \/ SetLock(t) \/ SetWrite(t) \/ SetUnlock(t)

SpecCache == CacheInit /\ [][CacheNext]_vars

-----------------------------------------------------------------------------
(* Properties of the inode-reference cache *)

Reading(t) == threads[t].pc \in {"get:read", "get:RUnlock"}
Writing(t) == threads[t].pc \in {"set:write", "set:Unlock"}

-----------------------------------------------------------------------------
(* An image opened with Open, used and closed (super.go Open, Close;
   inode.go GetUid, GetGid) *)

\* Most Close calls the caller makes on one Superblock.
MaxCloses == 2

\* Largest UidIdx and GidIdx of the inodes asked for their owner.
MaxIdx == 3

\* os.ErrClosed, which (*os.File).Close returns for a file closed before.
ErrClosed == "os.ErrClosed"
ErrOsOpen == "os.Open error"

notOpenSuperVars == <<pathVars, fileVars, dirVars, lifeVars, cacheVars, tableVars, readerVars, lookupVars>>

\* (*os.File).Close: the first call releases the descriptor, a later call
\* leaves the file alone and returns os.ErrClosed.
FileClose(f) ==
    IF f.open
    THEN [file |-> [open |-> FALSE, released |-> f.released + 1], err |-> "nil"]
    ELSE [file |-> f, err |-> ErrClosed]

\* Superblock.Close with sb.clos = c over the file f.
Close(c, f) ==
    IF c # "nil" THEN FileClose(f) ELSE [file |-> f, err |-> "nil"]

\* i.sb.idTable[idx] guarded by len(i.sb.idTable) >= int(idx): the index
\* expression panics when idx is not below the length.
IdAt(table, idx) ==
    IF Len(table) >= idx
    THEN IF idx < Len(table)
         THEN [panic |-> FALSE, id |-> table[idx + 1]]
         ELSE [panic |-> TRUE, id |-> 0]
    ELSE [panic |-> FALSE, id |-> 0]

\* Inode.GetUid and Inode.GetGid of the inode i.
GetUid(table, i) == IdAt(table, i.UidIdx)
GetGid(table, i) == IdAt(table, i.GidIdx)

\* The headers of the files handed to Open: a version 4.0 or 5.0 header of
\* 128 KiB blocks under every magic, in either byte order.
OpenHeaders ==
    {Header(magic, order, <<2, 0>>, 17, major, 0) :
        magic \in Magics, order \in {"LittleEndian", "BigEndian"}, major \in {4, 5}}

\* The ID tables of the files handed to Open, readable in full or in part.
IdImages ==
    {im \in {IdImage(n, k) : n \in 0..MaxIds, k \in -1..MaxIds} :
        im.readable <= im.IdCount}

OpenInit ==
    /\ \E h \in OpenHeaders, n \in {95, 4096} : fs = [size |-> n, head |-> h]
    /\ rootReadable \in BOOLEAN
    /\ idImage \in IdImages
    /\ idTable = <<>>
    /\ newPc = "idle"
    /\ sb = <<>>
    /\ newRes = "none"
    /\ newErr = "nil"
    /\ osFile = <<>>
    /\ clos = "nil"
    /\ openPc = "os.Open"
    /\ openErr = "nil"
    /\ closeRes = <<>>
    /\ idCall = <<>>
    /\ PathIdle
    /\ FileIdle
    /\ DirIdle
    /\ LifeIdle
    /\ CacheIdle
    /\ TableIdle
    /\ ReaderIdle
    /\ LookupIdle

\* f, err := os.Open(file); if err != nil { return nil, err }; sb, err := New(f, options...)
OsOpen ==
    /\ openPc = "os.Open"
    /\ \E ok \in BOOLEAN :
          IF ok
          THEN /\ osFile' = [open |-> TRUE, released |-> 0]
               /\ openPc' = "New"
               /\ newPc' = "ReadAt"
               /\ UNCHANGED openErr
          ELSE /\ openPc' = "failed"
               /\ openErr' = ErrOsOpen
               /\ UNCHANGED <<osFile, newPc>>
    /\ UNCHANGED <<clos, closeRes, idCall>>
    /\ UNCHANGED <<fs, rootReadable, sb, newRes, newErr, idImage, idTable>>
    /\ UNCHANGED notOpenSuperVars

\* if err != nil { f.Close(); return nil, err }; sb.clos = f;
\* runtime.SetFinalizer(sb, clean); return sb, nil
OpenReturn ==
    /\ openPc = "New"
    /\ newPc = "done"
    /\ IF newErr # "nil"
       THEN /\ osFile' = FileClose(osFile).file
            /\ openPc' = "failed"
            /\ openErr' = newErr
            /\ UNCHANGED clos
       ELSE /\ clos' = "f"
            /\ openPc' = "opened"
            /\ UNCHANGED <<osFile, openErr>>
    /\ UNCHANGED <<closeRes, idCall>>
    /\ UNCHANGED superVars
    /\ UNCHANGED notOpenSuperVars

\* The caller calls sb.Close().
CloseCall ==
    /\ openPc = "opened"
    /\ Len(closeRes) < MaxCloses
    /\ LET r == Close(clos, osFile)
       IN /\ osFile' = r.file
          /\ closeRes' = Append(closeRes, r.err)
    /\ UNCHANGED <<clos, openPc, openErr, idCall>>
    /\ UNCHANGED superVars
    /\ UNCHANGED notOpenSuperVars

\* The caller has dropped sb and the garbage collector runs the finalizer
\* Open has set: clean := func(sb *Superblock) { sb.Close() }.
Finalizer ==
    /\ openPc = "opened"
    /\ osFile' = Close(clos, osFile).file
    /\ openPc' = "collected"
    /\ UNCHANGED <<clos, openErr, closeRes, idCall>>
    /\ UNCHANGED superVars
    /\ UNCHANGED notOpenSuperVars

\* The inodes asked for their owner: every pair of indices.
IdInodes == {[UidIdx |-> u, GidIdx |-> g] : u \in 0..MaxIdx, g \in 0..MaxIdx}

IdReturn(method, idx, r) ==
    /\ idCall' = [method |-> method, idx |-> idx, panic |-> r.panic, id |-> r.id]
    /\ openPc' = IF r.panic THEN "panicked" ELSE openPc

\* The caller calls GetUid on an inode of the image.
GetUidCall ==
    /\ openPc = "opened"
    /\ idCall = <<>>
    /\ \E i \in IdInodes : IdReturn("GetUid", i.UidIdx, GetUid(idTable, i))
    /\ UNCHANGED <<osFile, clos, openErr, closeRes>>
    /\ UNCHANGED superVars
    /\ UNCHANGED notOpenSuperVars

\* The caller calls GetGid on an inode of the image.
GetGidCall ==
    /\ openPc = "opened"
    /\ idCall = <<>>
    /\ \E i \in IdInodes : IdReturn("GetGid", i.GidIdx, GetGid(idTable, i))
    /\ UNCHANGED <<osFile, clos, openErr, closeRes>>
    /\ UNCHANGED superVars
    /\ UNCHANGED notOpenSuperVars

OpenNext == OsOpen \/ OpenReturn \/ CloseCall \/ Finalizer \/ GetUidCall \/ GetGidCall

SpecOpen == OpenInit /\ [][SuperNext \/ OpenNext]_vars

-----------------------------------------------------------------------------
(* Properties of Open, Close, New's ID table and the owner lookups *)

\* Open has returned a Superblock to its caller.
Opened == openPc \in {"opened", "collected", "panicked"}

\* C16: once the caller of Open has called Close, the underlying file has
\* been released exactly once, however many Close calls followed, and every
\* Close call has returned no error.
C16_CloseIdempotent ==
    (Opened /\ Len(closeRes) >= 1) =>
        /\ ~osFile.open
        /\ osFile.released = 1
        /\ \A k \in 1..Len(closeRes) : closeRes[k] = "nil"

\* C17: when readIdTable fails in New, New returns that error and no
\* Superblock.
C17_NewReportsIdTableError ==
    [][(/\ newPc = "readIdTable"
        /\ newPc' = "done"
        /\ readIdTable(idImage).err # "nil")
       => (newRes' = "nil" /\ newErr' = readIdTable(idImage).err)]_vars

\* C18: GetUid and GetGid return the entry of sb.idTable at the inode's
\* index when the index is inside the table, and 0 without panicking when it
\* is not: at the table's length, beyond it, or with an empty table.
C18_OwnerLookup ==
    idCall # <<>> =>
        /\ ~idCall.panic
        /\ idCall.id = IF idCall.idx < Len(idTable)
                       THEN idTable[idCall.idx + 1]
                       ELSE 0

-----------------------------------------------------------------------------
(* The inode table of an image with large directories (writer.go             *)
(* buildInodeTableToBuffer): the two loops that look for stable positions,   *)
(* the extended directories with their index, the metadata blocks of the     *)
(* inodes. The inodes are w.inodes of the directory table above, each with   *)
(* its directory index and its block list.                                   *)

\* Entries of the longest block list of a file.
MaxBlockList == 2041

\* Entries of the block list of a file of a few blocks.
ShortBlockList == 8

\* Files of the root that, with the root and one directory, fill a metadata block.
AlignedFiles == 254

\* Files of the root that leave room for a short extended directory inode only.
TightFiles == 249

\* Length of a long name.
LongNameLen == 39

maxIterations == 10
maxDirIterations == 10

notDirTableVars == <<pathVars, superVars, fileVars, lifeVars, cacheVars, openVars, readerVars, lookupVars>>
notReaderVars == <<pathVars, superVars, fileVars, dirVars, lifeVars, cacheVars, openVars, tableVars, lookupVars>>
notLookupVars == <<pathVars, superVars, fileVars, dirVars, lifeVars, cacheVars, openVars, tableVars, readerVars>>

\* What w.comp does with a block: it never shortens one, it halves every one,
\* or the length it returns varies with the bytes.
Compressors == {"stored", "half", "varies"}

\* The trees: counts[1] files in the root and, when counts has two numbers, a
\* directory added after them with counts[2] files; blocks is the length of
\* the block list of the files of the last directory.
TableTrees ==
    {[counts |-> <<c>>, blocks |-> 0, nameLen |-> l] :
        c \in {indexInterval - 1, indexInterval, indexInterval + 1}, l \in {1, LongNameLen}}
    \cup {[counts |-> <<AlignedFiles, c>>, blocks |-> 0, nameLen |-> 1] :
            c \in {indexInterval, indexInterval + 1}}
    \cup {[counts |-> <<TightFiles, indexInterval + 1>>, blocks |-> 1,
           nameLen |-> LongNameLen]}
    \cup {[counts |-> <<indexInterval + 1>>, blocks |-> ShortBlockList,
           nameLen |-> LongNameLen]}
    \cup {[counts |-> <<2>>, blocks |-> MaxBlockList, nameLen |-> 1]}

\* w.inodes after the Add calls of tree t.
TableInodes(t) ==
    LET n == Len(t.counts) - 1
        ws == TreeOf("flat", t.counts, n, t.nameLen)
        last == DirIno(t.counts, n)
    IN [k \in DOMAIN ws |->
          ws[k] @@ [dirIndex |-> <<>>,
                    dataBlocks |-> IF k > last THEN [j \in 1..t.blocks |-> 0] ELSE <<>>]]

TableInit ==
    /\ \E t \in TableTrees : inodes = TableInodes(t)
    /\ comp \in Compressors
    /\ tablePc = "clear"
    /\ iteration = 0
    /\ dirIter = 0
    /\ blockPositions = <<>>
    /\ result = <<>>
    /\ rootInode = NoTable
    /\ tableErr = "nil"
    /\ inodePos = <<>>
    /\ dirPc = "prepareDirectories"
    /\ loopIndex = 0
    /\ globalDirOffset = 0
    /\ dirBlocks = <<>>
    /\ dirInodes = <<>>
    /\ listDir = 0
    /\ dr = <<>>
    /\ listing = <<>>
    /\ listErr = "nil"
    /\ PathIdle
    /\ SuperIdle
    /\ FileIdle
    /\ LifeIdle
    /\ CacheIdle
    /\ OpenIdle
    /\ ReaderIdle
    /\ LookupIdle

RECURSIVE SumSeq(_)
SumSeq(s) == IF s = <<>> THEN 0 ELSE Head(s) + SumSeq(Tail(s))

\* Bytes of the serialized inodes ws[lo..hi].
RECURSIVE InodesLen(_, _, _)
InodesLen(ws, lo, hi) ==
    IF lo > hi THEN 0
    ELSE IF lo = hi THEN InodeLen(ws[lo])
    ELSE LET mid == (lo + hi) \div 2
         IN InodesLen(ws, lo, mid) + InodesLen(ws, mid + 1, hi)

\* Where the serialized inodes ws[lo..hi] begin when they follow each other
\* from byte base on.
RECURSIVE InodeStarts(_, _, _, _)
InodeStarts(ws, lo, hi, base) ==
    IF lo > hi THEN <<>>
    ELSE IF lo = hi THEN <<base>>
    ELSE LET mid == (lo + hi) \div 2
         IN InodeStarts(ws, lo, mid, base)
            \o InodeStarts(ws, mid + 1, hi, base + InodesLen(ws, lo, mid))

\* The beginning of every inode, and the end of the last one.
StreamStarts(ws) == InodeStarts(ws, 1, Len(ws), 0) \o <<InodesLen(ws, 1, Len(ws))>>

\* The last inode of the metadata block whose first inode is from, between lo
\* and hi: the loop over w.inodes starts a block when the buffer holds bytes
\* and the next inode would bring it above maxMetadataBlockSize.
RECURSIVE BlockEnd(_, _, _, _)
BlockEnd(P, from, lo, hi) ==
    IF lo >= hi THEN lo
    ELSE LET mid == (lo + hi + 1) \div 2
         IN IF P[mid + 1] - P[from] <= maxMetadataBlockSize
            THEN BlockEnd(P, from, mid, hi)
            ELSE BlockEnd(P, from, lo, mid - 1)

\* The metadata blocks of the inodes from inode from on: first and last
\* inode and decoded length of each.
RECURSIVE PackBlocks(_, _)
PackBlocks(P, from) ==
    IF from >= Len(P) THEN <<>>
    ELSE LET to == BlockEnd(P, from, from, Len(P) - 1)
         IN <<[lo |-> from, hi |-> to, len |-> P[to + 1] - P[from]]>>
            \o PackBlocks(P, to + 1)

\* computeInodePositions: blockNum and offset of every inode.
inodePositions(ws) ==
    LET P == StreamStarts(ws)
        bs == PackBlocks(P, 1)
    IN SubSeq([k \in 1..Len(ws) |->
                 LET b == CHOOSE j \in DOMAIN bs : bs[j].lo <= k /\ k <= bs[j].hi
                 IN [blockNum |-> b - 1, offset |-> P[k] - P[bs[b].lo]]], 1, Len(ws))

inodePositionsNotCompared(a, b) == TRUE

inodePositionsEqual(a, b) == a = b
blockPositionsEqual(a, b) == a = b

IsHeader(item) == item.k = "hdr"

\* The index entries buildDirectoryEntryData and simulateDirectoryIndices
\* append: one for every chunk, the first chunk too.
DirIndex(ws, items) ==
    LET hs == SelectSeq(items, IsHeader)
    IN [j \in DOMAIN hs |-> [Index |-> hs[j].at, Start |-> 0, Name |-> ws[hs[j].ino].name]]

\* simulateDirectoryIndices: nothing when inodePos is empty.
simulateDirectoryIndices(ws, pos) ==
    SubSeq([k \in DOMAIN ws |->
              IF ws[k].fileType # XDirType \/ pos = <<>> THEN ws[k]
              ELSE [ws[k] EXCEPT !.dirIndex =
                       DirIndex(ws, buildDirectoryEntryData(ws, pos, <<>>, ws[k]))]],
           1, Len(ws))

\* Bytes of the directory data of the directories before inode k.
DirDataStart(ws, k) ==
    LET ds == SelectSeq(SubSeq(ws, 1, k - 1), IsDirInode)
    IN SumSeq([j \in DOMAIN ds |-> ItemsLen(ds[j].dirData)])

\* buildDirectoryDataForAllInodes and rebuildDirectoryDataWithBlockPositions:
\* the directory data of every directory, its size, its offset and, for an
\* extended directory, its index; the second one fails when a size changes.
DirectoryData(ws, pos, bp) ==
    LET built == SubSeq([k \in DOMAIN ws |->
                           IF ~IsDirInode(ws[k]) THEN ws[k]
                           ELSE LET bytes == buildDirectoryEntryData(ws, pos, bp, ws[k])
                                IN [ws[k] EXCEPT
                                      !.dirData = bytes,
                                      !.size = ItemsLen(bytes),
                                      !.dirIndex = IF ws[k].fileType = XDirType
                                                   THEN DirIndex(ws, bytes) ELSE @]],
                        1, Len(ws))
    IN SubSeq([k \in DOMAIN ws |->
                 IF ~IsDirInode(ws[k]) THEN ws[k]
                 ELSE [built[k] EXCEPT !.dirOffset = DirDataStart(built, k)]], 1, Len(ws))

buildAllDirectoryData(ws, pos) == DirectoryData(ws, pos, <<>>)

rebuildDirectoryDataWithBlockPositions(ws, pos, bp) ==
    LET built == DirectoryData(ws, pos, bp)
    IN [ws |-> built,
        err |-> IF \E k \in DOMAIN ws : /\ IsDirInode(ws[k])
                                        /\ ws[k].size # 0
                                        /\ ws[k].size # built[k].size
                THEN "directory size changed" ELSE "nil"]

\* w.comp.compress(blockData): the length of what the compressor returns
\* for a block of len bytes; digest stands for the bytes.
compress(c, len, digest) ==
    IF c = "stored" THEN len + 18
    ELSE IF c = "half" THEN CompressedLen(len)
    ELSE CompressedLen(len) + (digest % 16)

\* Bytes of a metadata block as written: the 2-byte header and the shorter
\* of the compressed and the plain bytes.
MetadataBlockLen(c, len, digest) ==
    2 + (IF compress(c, len, digest) < len THEN compress(c, len, digest) ELSE len)

\* What of a serialized directory inode changes between two passes.
InodeDigest(i) ==
    i.size + i.dirOffset + SumSeq([j \in DOMAIN i.dirIndex |-> i.dirIndex[j].Start])

InodeBlockDigest(ws, b) ==
    LET ds == SelectSeq(SubSeq(ws, b.lo, b.hi), IsDirInode)
    IN SumSeq([j \in DOMAIN ds |-> InodeDigest(ds[j])])

\* What of block k of the directory table changes between two passes.
DirBlockDigest(items, k) ==
    LET inBlock(item) == IsHeader(item) /\ item.at \div maxMetadataBlockSize = k - 1
        hs == SelectSeq(items, inBlock)
    IN SumSeq([j \in DOMAIN hs |-> hs[j].start])

\* computeDirectoryTableOffsets: the blocks of the directory table, from
\* block k on.
RECURSIVE precompressedDirBlocks(_, _, _, _, _)
precompressedDirBlocks(c, items, len, k, offset) ==
    IF len <= 0 THEN <<>>
    ELSE LET blkSize == IF len > maxMetadataBlockSize THEN maxMetadataBlockSize ELSE len
             toWrite == MetadataBlockLen(c, blkSize, DirBlockDigest(items, k))
         IN <<[offset |-> offset, len |-> blkSize, stored |-> toWrite]>>
            \o precompressedDirBlocks(c, items, len - blkSize, k + 1, offset + toWrite)

\* computeDirectoryTableOffsets: the blocks, and Start of every index entry.
computeDirectoryTableOffsets(c, ws) ==
    LET items == DirTableData(ws)
        blocks == precompressedDirBlocks(c, items, ItemsLen(items), 1, 0)
        startOf(k, e) ==
            blocks[(DirDataStart(ws, k) + e.Index) \div maxMetadataBlockSize + 1].offset
    IN [blocks |-> blocks,
        ws |-> SubSeq([k \in DOMAIN ws |->
                         IF ws[k].fileType # XDirType \/ Len(ws[k].dirIndex) = 0 THEN ws[k]
                         ELSE [ws[k] EXCEPT !.dirIndex =
                                 [j \in DOMAIN ws[k].dirIndex |->
                                    [ws[k].dirIndex[j] EXCEPT
                                       !.Start = startOf(k, ws[k].dirIndex[j])]]]],
                      1, Len(ws))]

\* Where metadata block j of the inode blocks bs begins in the inode table.
RECURSIVE BlockStart(_, _, _, _)
BlockStart(c, ws, bs, j) ==
    IF j = 1 THEN 0
    ELSE BlockStart(c, ws, bs, j - 1)
         + MetadataBlockLen(c, bs[j - 1].len, InodeBlockDigest(ws, bs[j - 1]))

\* computeBlockPositions
computeBlockPositions(c, ws) ==
    LET bs == PackBlocks(StreamStarts(ws), 1)
    IN SubSeq([j \in DOMAIN bs |-> BlockStart(c, ws, bs, j)], 1, Len(bs))

\* serializeInodesToBuffer: the metadata blocks written, each with its place
\* in the table, its inodes, its decoded length and its bytes as written.
serializeInodesToBuffer(c, ws) ==
    LET bs == PackBlocks(StreamStarts(ws), 1)
    IN SubSeq([j \in DOMAIN bs |->
                 [at |-> BlockStart(c, ws, bs, j), lo |-> bs[j].lo, hi |-> bs[j].hi,
                  len |-> bs[j].len,
                  stored |-> MetadataBlockLen(c, bs[j].len, InodeBlockDigest(ws, bs[j]))]],
              1, Len(bs))

\* buildInodeTableToBuffer: the directory data is cleared.
ClearDirectoryData ==
    /\ dirPc = "computeInodePositions"
    /\ tablePc = "clear"
    /\ inodes' = [k \in DOMAIN inodes |->
                    IF IsDirInode(inodes[k])
                    THEN [inodes[k] EXCEPT !.size = 0, !.dirOffset = 0, !.dirIndex = <<>>]
                    ELSE inodes[k]]
    /\ inodePos' = <<>>
    /\ iteration' = 0
    /\ tablePc' = "inodePositions"
    /\ UNCHANGED <<comp, dirIter, blockPositions, result, rootInode, tableErr>>
    /\ UNCHANGED <<dirPc, loopIndex, globalDirOffset, dirBlocks, dirInodes, listDir, dr,
                   listing, listErr>>
    /\ UNCHANGED notDirTableVars

\* One iteration of the first loop of buildInodeTableToBuffer.
InodePositionsIteration ==
    /\ tablePc = "inodePositions"
    /\ LET simulated == simulateDirectoryIndices(inodes, inodePos)
           newPos == inodePositions(simulated)
       IN /\ inodes' = simulated
          /\ inodePos' = newPos
          /\ IF iteration > 0 /\ inodePositionsEqual(inodePos, newPos)
             THEN tablePc' = "buildDirectoryData" /\ UNCHANGED <<iteration, tableErr>>
             ELSE IF iteration = maxIterations - 1
             THEN /\ tablePc' = "failed"
                  /\ tableErr' = "failed to converge inode positions"
                  /\ UNCHANGED iteration
             ELSE iteration' = iteration + 1 /\ UNCHANGED <<tablePc, tableErr>>
    /\ UNCHANGED <<comp, dirIter, blockPositions, result, rootInode>>
    /\ UNCHANGED <<dirPc, loopIndex, globalDirOffset, dirBlocks, dirInodes, listDir, dr,
                   listing, listErr>>
    /\ UNCHANGED notDirTableVars

\* buildInodeTableToBuffer: buildDirectoryDataForAllInodes(inodePos, nil)
BuildAllDirectoryData ==
    /\ tablePc = "buildDirectoryData"
    /\ inodes' = buildAllDirectoryData(inodes, inodePos)
    /\ dirIter' = 0
    /\ tablePc' = "blockPositions"
    /\ UNCHANGED <<comp, iteration, blockPositions, result, rootInode, tableErr>>
    /\ UNCHANGED <<inodePos, dirPc, loopIndex, globalDirOffset, dirBlocks, dirInodes,
                   listDir, dr, listing, listErr>>
    /\ UNCHANGED notDirTableVars

\* One iteration of the second loop of buildInodeTableToBuffer.
BlockPositionsIteration ==
    /\ tablePc = "blockPositions"
    /\ LET offs == computeDirectoryTableOffsets(comp, inodes)
           newBlockPositions == computeBlockPositions(comp, offs.ws)
           rebuilt == rebuildDirectoryDataWithBlockPositions(offs.ws, inodePos,
                                                             newBlockPositions)
       IN /\ dirBlocks' = offs.blocks
          /\ blockPositions' = newBlockPositions
          /\ IF dirIter > 0 /\ blockPositionsEqual(blockPositions, newBlockPositions)
             THEN /\ inodes' = offs.ws
                  /\ tablePc' = "serializeInodes"
                  /\ UNCHANGED <<dirIter, tableErr>>
             ELSE IF dirIter = maxDirIterations - 1
             THEN /\ inodes' = offs.ws
                  /\ tablePc' = "failed"
                  /\ tableErr' = "blockPositions failed to converge"
                  /\ UNCHANGED dirIter
             ELSE IF rebuilt.err # "nil"
             THEN /\ inodes' = rebuilt.ws
                  /\ tablePc' = "failed"
                  /\ tableErr' = rebuilt.err
                  /\ UNCHANGED dirIter
             ELSE /\ inodes' = rebuilt.ws
                  /\ dirIter' = dirIter + 1
                  /\ UNCHANGED <<tablePc, tableErr>>
    /\ UNCHANGED <<comp, iteration, result, rootInode>>
    /\ UNCHANGED <<inodePos, dirPc, loopIndex, globalDirOffset, dirInodes, listDir, dr,
                   listing, listErr>>
    /\ UNCHANGED notDirTableVars

\* buildInodeTableToBuffer: serializeInodesToBuffer; Finalize writes the
\* directory table and the inode table.
SerializeInodesToBuffer ==
    /\ tablePc = "serializeInodes"
    /\ result' = serializeInodesToBuffer(comp, inodes)
    /\ tablePc' = "buildSuperblock"
    /\ UNCHANGED <<comp, iteration, dirIter, blockPositions, rootInode, tableErr>>
    /\ UNCHANGED dirVars
    /\ UNCHANGED notDirTableVars

\* buildSuperblock: the reference to the root inode.
BuildSuperblock ==
    /\ tablePc = "buildSuperblock"
    /\ rootInode' = 0
    /\ tablePc' = "done"
    /\ UNCHANGED <<comp, iteration, dirIter, blockPositions, result, tableErr>>
    /\ UNCHANGED dirVars
    /\ UNCHANGED notDirTableVars

TableNext ==
    \/ PrepareDirectories \/ ClearDirectoryData \/ InodePositionsIteration
    \/ BuildAllDirectoryData \/ BlockPositionsIteration \/ SerializeInodesToBuffer
    \/ BuildSuperblock

SpecTable == TableInit /\ [][TableNext]_vars

-----------------------------------------------------------------------------
(* Properties of the inode table *)

\* Finalize wrote the image: the directory table, the inode table, the superblock.
Finalized == tablePc = "done"

\* The chunk headers of the directory data of inode i.
HeadersOf(i) == SelectSeq(i.dirData, IsHeader)

\* The header of the chunk that item j of the directory data items is in.
HeaderOf(items, j) ==
    items[CHOOSE h \in 1..j : IsHeader(items[h]) /\ \A u \in (h + 1)..j : ~IsHeader(items[u])]

\* C29: a directory with exactly 256 children is written as a basic directory
\* whose body has a single header and no directory index; a directory with
\* 257 children is written as an extended directory whose body has a second
\* header and whose index has one entry.
C29_IndexAtInterval ==
    Finalized =>
        \A d \in DOMAIN inodes :
            /\ Len(inodes[d].entries) = indexInterval
                 => /\ inodes[d].fileType = DirType
                    /\ Len(HeadersOf(inodes[d])) = 1
                    /\ inodes[d].dirIndex = <<>>
            /\ Len(inodes[d].entries) = indexInterval + 1
                 => /\ inodes[d].fileType = XDirType
                    /\ Len(HeadersOf(inodes[d])) = 2
                    /\ Len(inodes[d].dirIndex) = 1

\* C23: every inode metadata block the Writer emits decodes to at most 8192
\* bytes, also with file inodes that have long block lists.
C23_BlocksDecodeWithinLimit ==
    \A j \in DOMAIN result : result[j].len <= maxMetadataBlockSize

\* The inode number a reader computes for entry e of a chunk with header h.
EntryNumber(h, e) == h.ino + e.delta

\* The metadata block written at byte blockStart of the inode table holds, at
\* byte offset of its decoded bytes, the beginning of inode number.
Addresses(blockStart, offset, number) ==
    \E j \in DOMAIN result :
        /\ result[j].at = blockStart
        /\ result[j].lo <= number /\ number <= result[j].hi
        /\ InodesLen(inodes, result[j].lo, number - 1) = offset

\* C21: when Finalize succeeds, for every directory entry of the emitted
\* directory table the header's start_block is the byte offset of an emitted
\* inode metadata block and the entry's offset is the position in that decoded
\* block at which the inode with the entry's inode number begins; the
\* superblock's root inode reference addresses the root inode in the same way.
C21_EntriesAddressInodes ==
    Finalized =>
        /\ \A d \in DOMAIN inodes :
              IsDirInode(inodes[d]) =>
                 \A j \in DOMAIN inodes[d].dirData :
                    LET item == inodes[d].dirData[j]
                        h == HeaderOf(inodes[d].dirData, j)
                    IN ~IsHeader(item) =>
                          /\ EntryNumber(h, item) = item.ino
                          /\ Addresses(h.start, item.offset, item.ino)
        /\ Addresses(rootInode \div 65536, rootInode % 65536, inodes[1].ino)

\* C21: an image whose inodes fill three metadata blocks, written compressed,
\* with an extended directory whose later chunks point into the later blocks.
C21_Witness ==
    /\ Finalized
    /\ comp = "half"
    /\ Len(result) > 2
    /\ \E d \in DOMAIN inodes :
          /\ inodes[d].fileType = XDirType
          /\ \E j \in DOMAIN inodes[d].dirData :
                IsHeader(inodes[d].dirData[j]) /\ inodes[d].dirData[j].start > 0

\* The loops of buildInodeTableToBuffer were left without an error.
AfterFirstLoop == {"buildDirectoryData", "blockPositions", "serializeInodes",
                   "buildSuperblock", "done"}
AfterSecondLoop == {"serializeInodes", "buildSuperblock", "done"}

\* C22: each of the two loops of Finalize stops after at most 10 iterations,
\* at a fixed point (computing again from the result gives the result) or with
\* an error that ends Finalize; nothing is emitted from positions that are not
\* a fixed point.
C22_LoopsStopAtFixedPoint ==
    /\ iteration < maxIterations
    /\ dirIter < maxDirIterations
    /\ tablePc \in AfterFirstLoop =>
          /\ tableErr = "nil"
          /\ inodePos = inodePositions(simulateDirectoryIndices(inodes, inodePos))
    /\ tablePc \in AfterSecondLoop =>
          LET offs == computeDirectoryTableOffsets(
                         comp, DirectoryData(inodes, inodePos, blockPositions))
          IN /\ offs.ws = inodes
             /\ offs.blocks = dirBlocks
             /\ computeBlockPositions(comp, offs.ws) = blockPositions
    /\ tablePc = "failed" <=> tableErr # "nil"
    /\ result # <<>> => tablePc \in AfterSecondLoop
    /\ rootInode # NoTable => tablePc = "done"

\* C22: Finalize wrote an image of an extended directory after the first loop
\* ran three times.
C22_Witness ==
    /\ Finalized
    /\ iteration = 2
    /\ dirIter = 1
    /\ \E d \in DOMAIN inodes : inodes[d].fileType = XDirType

-----------------------------------------------------------------------------
(* The metadata reader over a table of block pointers (tablereader.go        *)
(* newIndirectTableReader, readBlock, Read), as readIdTable uses it. The     *)
(* metadata blocks lie one after another from the end of the superblock on,  *)
(* the array of 8-byte pointers follows them.                                *)

\* Most pointers of the array.
MaxPointers == 3

\* Metadata blocks of the image.
MaxTableBlocks == 2

\* Most Read calls of a run, and most bytes one of them asks for.
MaxReads == 3
MaxReadLen == 2

\* Bytes of block b on disk, after its 2-byte header.
StoredLen(im, b) == IF im.plain THEN im.lens[b] ELSE CompressedLen(im.lens[b])

\* Where block b begins.
RECURSIVE BlockAddr(_, _)
BlockAddr(im, b) ==
    IF b = 1 THEN SuperblockSize ELSE BlockAddr(im, b - 1) + 2 + StoredLen(im, b - 1)

\* Where the pointer array begins.
PointersAt(im) == BlockAddr(im, MaxTableBlocks + 1)

\* The decoded bytes of block b.
Decoded(im, b) == [j \in 1..im.lens[b] |-> 10 * b + j]

ReaderImages ==
    {[ptrs |-> ps, lens |-> ls, plain |-> pl] :
        ps \in UNION {[1..n -> 1..MaxTableBlocks] : n \in 1..MaxPointers},
        ls \in [1..MaxTableBlocks -> 1..2], pl \in BOOLEAN}

ReaderInit ==
    /\ ptrImage \in ReaderImages
    /\ tr = [buf |-> <<>>, hasBuf |-> FALSE, offt |-> 0, tofft |-> 0]
    /\ trPc = "new"
    /\ trErr = "nil"
    /\ blocksRead = <<>>
    /\ delivered = <<>>
    /\ reads = 0
    /\ PathIdle
    /\ SuperIdle
    /\ FileIdle
    /\ DirIdle
    /\ LifeIdle
    /\ CacheIdle
    /\ OpenIdle
    /\ TableIdle
    /\ LookupIdle

\* i.sb.fs.ReadAt(buf, addr) of 8 bytes, as Uint64: the pointer at addr.
ReadPointer(im, addr) ==
    IF \E k \in DOMAIN im.ptrs : addr = PointersAt(im) + 8 * (k - 1)
    THEN [v |-> BlockAddr(im, im.ptrs[CHOOSE k \in DOMAIN im.ptrs :
                                         addr = PointersAt(im) + 8 * (k - 1)]),
          err |-> "nil"]
    ELSE [v |-> 0, err |-> "EOF"]

\* readBlock: in tofft mode the pointer at i.tofft gives i.offt; the block at
\* i.offt is read and decoded, i.offt moves behind it. at is where the block
\* read lies.
readBlock(r, im) ==
    LET p == IF r.tofft # 0 THEN ReadPointer(im, r.tofft)
             ELSE [v |-> r.offt, err |-> "nil"]
    IN IF p.err # "nil" THEN [r |-> r, err |-> p.err, at |-> 0]
       ELSE IF \A b \in 1..MaxTableBlocks : BlockAddr(im, b) # p.v
       THEN [r |-> [r EXCEPT !.offt = p.v], err |-> "EOF", at |-> 0]
       ELSE LET b == CHOOSE c \in 1..MaxTableBlocks : BlockAddr(im, c) = p.v
            IN [r |-> [r EXCEPT !.offt = p.v + StoredLen(im, b) + 2,
                                !.buf = Decoded(im, b),
                                !.hasBuf = TRUE],
                err |-> "nil", at |-> p.v]

\* newIndirectTableReader(base, skip)
newIndirectTableReader(im, base, skip) ==
    LET ir == [buf |-> <<>>, hasBuf |-> FALSE, offt |-> 0, tofft |-> base]
        rb == readBlock(ir, im)
    IN IF rb.err # "nil" THEN rb
       ELSE IF skip = 0 THEN rb
       ELSE IF skip > Len(rb.r.buf)
       THEN [rb EXCEPT !.err = "panic: slice bounds out of range"]
       ELSE [rb EXCEPT !.r.buf = SubSeq(@, skip + 1, Len(@))]

\* tableReader.Read(p) with len(p) = n
Read(r, im, n) ==
    LET rb == IF r.hasBuf THEN [r |-> r, err |-> "nil", at |-> 0] ELSE readBlock(r, im)
        m == IF n < Len(rb.r.buf) THEN n ELSE Len(rb.r.buf)
    IN IF rb.err # "nil" THEN [r |-> rb.r, err |-> rb.err, at |-> 0, bytes |-> <<>>]
       ELSE [r |-> IF m = Len(rb.r.buf)
                   THEN [rb.r EXCEPT !.buf = <<>>, !.hasBuf = FALSE]
                   ELSE [rb.r EXCEPT !.buf = SubSeq(@, m + 1, Len(@))],
             err |-> "nil", at |-> rb.at, bytes |-> SubSeq(rb.r.buf, 1, m)]

\* readIdTable: sb.newIndirectTableReader(int64(sb.IdTableStart), 0); skip is
\* the second argument.
NewIndirectTableReader ==
    /\ trPc = "new"
    /\ \E skip \in 0..1 :
         LET made == newIndirectTableReader(ptrImage, PointersAt(ptrImage), skip)
         IN /\ tr' = made.r
            /\ trErr' = made.err
            /\ trPc' = IF made.err = "nil" THEN "reading" ELSE "failed"
            /\ blocksRead' = IF made.err = "nil" THEN <<made.at>> ELSE <<>>
    /\ UNCHANGED <<ptrImage, delivered, reads>>
    /\ UNCHANGED notReaderVars

\* A Read call of the owner of the reader.
ReadCall ==
    /\ trPc = "reading"
    /\ reads < MaxReads
    /\ \E n \in 1..MaxReadLen :
         LET rd == Read(tr, ptrImage, n)
         IN /\ tr' = rd.r
            /\ trErr' = rd.err
            /\ trPc' = IF rd.err = "nil" THEN "reading" ELSE "failed"
            /\ blocksRead' = IF rd.at = 0 THEN blocksRead ELSE Append(blocksRead, rd.at)
            /\ delivered' = delivered \o rd.bytes
    /\ reads' = reads + 1
    /\ UNCHANGED ptrImage
    /\ UNCHANGED notReaderVars

ReaderNext == NewIndirectTableReader \/ ReadCall

SpecReader == ReaderInit /\ [][ReaderNext]_vars

-----------------------------------------------------------------------------
(* Properties of the metadata reader *)

\* C25: an indirect-mode reader over the pointers p0, p1, p2, ... returns the
\* decoded block addressed by p0, then the one addressed by p1, and so on: the
\* k-th block read is the one the k-th pointer addresses.
C25_BlocksFollowPointers ==
    \A k \in DOMAIN blocksRead :
        k <= Len(ptrImage.ptrs) => blocksRead[k] = BlockAddr(ptrImage, ptrImage.ptrs[k])

-----------------------------------------------------------------------------
\* Lookup of a name in an extended directory.

\* Names a directory may hold, and names that are looked up: some smaller
\* than every entry and some larger.
FirstKey == 2
LastKey == 5
EntryKeys == FirstKey..LastKey
LookupKeys == (FirstKey - 1)..(LastKey + 1)

\* Bytes of other directories before the directory in the directory table:
\* none, enough to put the second entry across a block boundary, and enough
\* to put the first header across it.
Leads == {0, maxMetadataBlockSize - 22, maxMetadataBlockSize - 5}

\* The members of a set of numbers in increasing order.
SortedKeys(S) ==
    [j \in 1..Cardinality(S) |-> CHOOSE k \in S : Cardinality({m \in S : m < k}) = j - 1]

\* An extended directory as parseInode and the directory table hold it: the
\* entries named keys in order of name, a new chunk at every entry of
\* breaks, an index entry for every chunk of indexed, lead bytes before it.
XDirImage(keys, breaks, indexed, lead, squeezed) ==
    LET ks == SortedKeys(keys)
        ws == [j \in 1..Len(ks) |->
                 [ino |-> j, name |-> [key |-> ks[j], len |-> ks[j]], fileType |-> FileType]]
        at == [j \in 1..Len(ks) |->
                 [blockNum |-> Cardinality({c \in breaks : c <= j}), offset |-> 32 * j]]
        bp == [b \in 1..(Len(ks) + 1) |-> 100 * (b - 1)]
        listed == DirChunks(ws, at, bp, [j \in 1..Len(ks) |-> j], 1, 0)
        blocks == CutBlocks(lead + ItemsLen(listed), 1, 0,
                            [b \in 1..BlockCount(lead + ItemsLen(listed)) |-> squeezed])
        heads == SelectSeq(listed, IsHeader)
        chosen == SortedKeys(indexed)
    IN [names |-> keys,
        entries |-> SelectSeq(listed, LAMBDA e : ~IsHeader(e)),
        items |-> [j \in DOMAIN listed |-> [listed[j] EXCEPT !.at = @ + lead]],
        blocks |-> blocks,
        inode |-> [Type |-> XDirType,
                   StartBlock |-> blocks[(lead \div maxMetadataBlockSize) + 1].offset,
                   Offset |-> lead % maxMetadataBlockSize,
                   Size |-> ItemsLen(listed) + 3,
                   DirIndex |-> [j \in DOMAIN chosen |->
                                   LET h == heads[chosen[j]]
                                   IN [Index |-> h.at,
                                       Start |-> blocks[((lead + h.at)
                                                   \div maxMetadataBlockSize) + 1].offset,
                                       Name |-> ws[h.ino].name]]]]

XDirImages ==
    UNION {UNION {{XDirImage(keys, breaks, indexed, lead, squeezed) :
                      indexed \in SUBSET (1..(Cardinality(breaks) + 1)),
                      lead \in Leads, squeezed \in BOOLEAN} :
                  breaks \in SUBSET (2..Cardinality(keys))} :
           keys \in SUBSET EntryKeys \ {{}}}

LookupInit ==
    /\ xdir \in XDirImages
    /\ wanted \in LookupKeys
    /\ lookupPc = "lookup"
    /\ viaIndex = <<>>
    /\ viaScan = <<>>
    /\ PathIdle
    /\ SuperIdle
    /\ FileIdle
    /\ DirIdle
    /\ LifeIdle
    /\ CacheIdle
    /\ OpenIdle
    /\ TableIdle
    /\ ReaderIdle

\* lookupRelativeInode, the loop over i.DirIndex: the number of the last
\* index entry before the first whose name is greater than n; 0 is nil.
SeekIndex(index, n) ==
    LET greater == {k \in DOMAIN index : n < index[k].Name.key}
    IN IF greater = {} THEN Len(index)
       ELSE (CHOOSE k \in greater : \A m \in greater : k <= m) - 1

\* Superblock.dirReader(i, seek); seek = <<>> is nil.
dirReader(blocks, i, seek) ==
    IF seek # <<>>
    THEN LET t == newTableReader(blocks, seek.Start, BitAnd(i.Offset + seek.Index, 8191))
         IN [pos |-> t.pos, N |-> i.Size - seek.Index, err |-> t.err]
    ELSE LET t == newTableReader(blocks, i.StartBlock, i.Offset)
         IN [pos |-> t.pos, N |-> i.Size, err |-> t.err]

\* The error of binary.Read when n bytes are left of a record read in
\* fields of width bytes each.
ShortRead(n, width) == IF n % width = 0 THEN ErrNotExist ELSE "io.ErrUnexpectedEOF"

PastNameOrAt(ename, n) == ename.key >= n

\* ename > name
PastName(ename, n) == ename.key > n

\* inodeRef((uint64(dr.startBlock) << 16) | uint64(offset))
InoRef(hdrStart, offset) == hdrStart * 65536 + offset

\* The loop of lookupRelativeInode over dr.next(): count entries are left
\* in the chunk, whose header gave hdrStart; io.EOF is fs.ErrNotExist.
RECURSIVE LookupLoop(_, _, _, _, _, _, _)
LookupLoop(items, pos, n, count, hdrStart, target, indexed) ==
    IF n = 3 THEN [ref |-> NoRef, err |-> ErrNotExist]
    ELSE IF count = 0
    THEN LET h == ItemAt(items, pos)
         IN IF n < DirHeaderLen THEN [ref |-> NoRef, err |-> ShortRead(n, 4)]
            ELSE IF h.k # "hdr" THEN [ref |-> NoRef, err |-> "not a directory listing"]
            ELSE LookupLoop(items, pos + h.len, n - h.len, h.count + 1, h.start,
                            target, indexed)
    ELSE LET e == ItemAt(items, pos)
         IN IF n < DirEntryLen THEN [ref |-> NoRef, err |-> ShortRead(n, 2)]
            ELSE IF e.k # "ent" THEN [ref |-> NoRef, err |-> "not a directory listing"]
            ELSE IF n < e.len
            THEN [ref |-> NoRef, err |-> ShortRead(n - DirEntryLen, e.name.len)]
            ELSE IF indexed /\ PastName(e.name, target)
            THEN [ref |-> NoRef, err |-> ErrNotExist]
            ELSE IF e.name.key = target
            THEN [ref |-> InoRef(hdrStart, e.offset), err |-> "nil"]
            ELSE LookupLoop(items, pos + e.len, n - e.len, count - 1, hdrStart,
                            target, indexed)

\* lookupRelativeInode(name) of a directory inode whose index is index.
lookupName(im, index, n) ==
    LET di == SeekIndex(index, n)
        reader == dirReader(im.blocks, im.inode, IF di = 0 THEN <<>> ELSE index[di])
    IN IF reader.err # "nil" THEN [ref |-> NoRef, err |-> reader.err]
       ELSE LookupLoop(im.items, reader.pos, reader.N, 0, 0, n, di # 0)

\* Inode.lookupRelativeInode(name) on the extended directory.
LookupRelativeInode ==
    /\ lookupPc = "lookup"
    /\ viaIndex' = lookupName(xdir, xdir.inode.DirIndex, wanted)
    /\ lookupPc' = "scan"
    /\ UNCHANGED <<xdir, wanted, viaScan>>
    /\ UNCHANGED notLookupVars

\* The same lookup with no index: every entry from the first header on.
ScanDirectory ==
    /\ lookupPc = "scan"
    /\ viaScan' = lookupName(xdir, <<>>, wanted)
    /\ lookupPc' = "done"
    /\ UNCHANGED <<xdir, wanted, viaIndex>>
    /\ UNCHANGED notLookupVars

LookupNext == LookupRelativeInode \/ ScanDirectory

SpecLookup == LookupInit /\ [][LookupNext]_vars

\* The entry of the directory named n, when there is one.
EntryNamed(im, n) ==
    im.entries[CHOOSE j \in DOMAIN im.entries : im.entries[j].name.key = n]

\* C26: in an extended directory whose entries and index are in order of
\* name, the lookup of a name through the index gives what reading the
\* directory from its start gives: the inode of the entry of that name when
\* there is one and not-found when there is none, for names smaller than
\* the first index entry and larger than the last as well.
C26_IndexLookupIsLinearScan ==
    lookupPc = "done" =>
        /\ viaIndex = viaScan
        /\ wanted \in xdir.names =>
              /\ viaIndex.err = "nil"
              /\ \E c \in 0..Cardinality(xdir.names) :
                    viaIndex.ref = InoRef(100 * c, EntryNamed(xdir, wanted).offset)
        /\ wanted \notin xdir.names => viaIndex.err = ErrNotExist

\* C26 (witness): a lookup that started at the second index entry, across
\* a block boundary, and found a name that is not the index entry's.
C26_Witness ==
    /\ lookupPc = "done"
    /\ Len(xdir.inode.DirIndex) >= 2
    /\ SeekIndex(xdir.inode.DirIndex, wanted) = 2
    /\ xdir.inode.DirIndex[2].Start > 0
    /\ xdir.inode.DirIndex[2].Name.key < wanted
    /\ viaIndex.err = "nil"

====
